---- MODULE Spec2Model ----
(***************************************************************************)
(* Model of the asterisk-router call mediator: the routing engine          *)
(* (internal/router), the provider registry (internal/provider), the load  *)
(* balancer (internal/loadbalancer) and the `dids` and                     *)
(* `call_verifications` tables they share with the operator CLI.           *)
(*                                                                         *)
(* Every Router handler takes r.mu on entry and holds it until it returns, *)
(* so under Spec a handler is one atomic action.  SpecAcquire splits leg 1 *)
(* between taking the lock, the SELECT of a free DID and the UPDATE that   *)
(* marks it, to check what the mutex guarantees to concurrent handlers.    *)
(***************************************************************************)
EXTENDS Integers, Sequences, FiniteSets, TLC

VARIABLES
    providers,        \* Manager.providers: name -> Provider
    providerRoutes,   \* Manager.providerRoutes: route name -> ProviderRoute
    dids,             \* table dids: number -> [ProviderName, InUse, Destination]
    activeCalls,      \* Router.activeCalls: call-id -> CallRecord
    didToCall,        \* Router.didToCall: DID -> call-id
    providerStats,    \* LoadBalancer.providerStats: name -> LoadBalancerStats
    roundRobinIndex,  \* LoadBalancer.roundRobinIndex: key -> cursor
    verifications,    \* the rows the step just taken appended to call_verifications
    now,              \* the clock, in ticks of TickMinutes
    last,             \* what the leg handler that just ran returned
    mu,               \* Router.mu: 0 when free, else the handler that holds it
    pc,               \* SpecAcquire: each leg-1 handler's position
    hsel,             \* SpecAcquire: each leg-1 handler's locals
    ended,            \* the records the step just taken removed from the ledger, as it left them
    sel,              \* SpecSelect, SpecRoundRobin: the Select calls made so far
    out,              \* what the gateway session that just ran wrote to its connection
    ret,              \* what the registry or pool call that just ran returned, and the table it found
    gw                \* the gateway: Server's fields, where Start and Stop are, and the sessions

vars == <<providers, providerRoutes, dids, activeCalls, didToCall, providerStats,
          roundRobinIndex, verifications, now, last, mu, pc, hsel, ended, sel, out, ret, gw>>

-----------------------------------------------------------------------------
(* Bounds of the model *)

MaxTime == 1
TickMinutes == 40
MaxTotalCalls == 2
NHandlers == 3

(* Constants of the program *)

StaleMinutes == 30
HealthResetMinutes == 5
UnhealthyMinCalls == 10
UnhealthyRate == 50
NoPriority == -1
ZeroTime == -1

-----------------------------------------------------------------------------
(* Inputs *)

CallIDs == {"c1", "c2"}
ANIs == {"a1"}
DNISs == {"n1"}
\* numbers a returning leg can present: the dialled ones and one that is not
LegNumbers == DNISs \cup {"n2"}
DIDNumbers == {"d1", "d2"}
InboundNames == {"s1", "sx"}
ClaimedNames == {"s3a"}
\* a source address as strings.Split(sourceIP, ":") sees it
SourceIPs == {<<"h3a">>, <<"h4", "5060">>}

None == "none"

-----------------------------------------------------------------------------
(* Go maps *)

Put(f, k, v) == [x \in (DOMAIN f) \cup {k} |-> IF x = k THEN v ELSE f[x]]
Del(f, k) == [x \in (DOMAIN f) \ {k} |-> f[x]]
EmptyMap == [x \in {} |-> None]
\* the element of a one-element set
OnlyOf(S) == CHOOSE x \in S : TRUE

\* every order a `for ... range map` can visit the set S in
Orders(S) == {s \in [1..Cardinality(S) -> S] : \A i, j \in 1..Cardinality(S) : i # j => s[i] # s[j]}

-----------------------------------------------------------------------------
(* Seed data: the registry, the route table and the pool at start-up *)

Provider(name, type, host, auth, maxch, prio, weight) ==
    [Name |-> name, Type |-> type, Host |-> host, AuthType |-> auth,
     MaxChannels |-> maxch, Priority |-> prio, Weight |-> weight, Active |-> TRUE]

SeedProviders ==
    LET ps == { Provider("s1",  "inbound",      "h1",  "ip",          0, 0, 1),
                Provider("s3a", "intermediate", "h3a", "ip",          0, 1, 2),
                Provider("s3b", "intermediate", "h3b", "credentials", 1, 1, 1),
                Provider("s4",  "final",        "h4",  "both",        2, 1, 1) }
    IN [n \in {p.Name : p \in ps} |-> CHOOSE p \in ps : p.Name = n]

SeedRoute(mode) ==
    [Name |-> "r", InboundProvider |-> "s1", IntermediateProvider |-> "s3a",
     FinalProvider |-> "s4", LoadBalanceMode |-> mode, Priority |-> 1, Active |-> TRUE]

SeedDIDs ==
    [d \in DIDNumbers |->
        [ProviderName |-> IF d = "d1" THEN "s3a" ELSE "s3b", InUse |-> FALSE, Destination |-> None]]

-----------------------------------------------------------------------------
(* Provider registry and route table (provider.Manager) *)

\* the routes the scan can end on: it keeps a route only when its priority is
\* strictly above the best so far, so among equal priorities the first one the
\* map iteration visits wins
GetRouteForInbound(inboundProvider) ==
    LET ok == {n \in DOMAIN providerRoutes :
                  /\ providerRoutes[n].InboundProvider = inboundProvider
                  /\ providerRoutes[n].Active
                  /\ providerRoutes[n].Priority > NoPriority}
    IN {n \in ok : \A m \in ok : providerRoutes[m].Priority <= providerRoutes[n].Priority}

GetProvider(name) == name \in DOMAIN providers

\* a lookup without the exact match: every peer of that name or type
GetProvidersByNameOrType(namePattern) ==
    LET m == {n \in DOMAIN providers : n = namePattern \/ providers[n].Type = namePattern}
    IN IF m = {} THEN {} ELSE Orders(m)

\* the slices the lookup can return: the exact match alone, else the peers of
\* that type in any map order; {} is the error
GetProvidersByName(namePattern) ==
    IF namePattern \in DOMAIN providers
    THEN {<<namePattern>>}
    ELSE LET m == {n \in DOMAIN providers : providers[n].Type = namePattern}
         IN IF m = {} THEN {} ELSE Orders(m)

-----------------------------------------------------------------------------
(* Load balancer (loadbalancer.LoadBalancer) *)

NewStats ==
    [TotalCalls |-> 0, ActiveCalls |-> 0, FailedCalls |-> 0, IsHealthy |-> TRUE,
     LastCallTime |-> ZeroTime]

GetProviderStats(stats, name) == IF name \in DOMAIN stats THEN stats[name] ELSE NewStats

\* a filter that forgets the channel limit
EligibleAnyLoad(stats, n) ==
    /\ providers[n].Active
    /\ (n \notin DOMAIN stats \/ stats[n].IsHealthy)

Eligible(stats, n) ==
    /\ providers[n].Active
    /\ (n \notin DOMAIN stats \/ stats[n].IsHealthy)
    /\ \/ providers[n].MaxChannels = 0
       \/ n \notin DOMAIN stats
       \/ stats[n].ActiveCalls < providers[n].MaxChannels

filterHealthyProviders(stats, ps) == SelectSeq(ps, LAMBDA n : Eligible(stats, n))

\* The cursor is keyed by the rendering of the slice of *Provider, i.e. by the
\* sequence of peers in their order.  It is only ever read as index % len(key)
\* and len(key) is fixed by the key, so the cursor is kept modulo len(key).
roundRobin(ps, rr) ==
    LET index == IF ps \in DOMAIN rr THEN rr[ps] ELSE 0
    IN {[name |-> ps[(index % Len(ps)) + 1], rr |-> Put(rr, ps, (index + 1) % Len(ps))]}

RECURSIVE SumWeights(_)
SumWeights(ps) == IF ps = <<>> THEN 0 ELSE providers[Head(ps)].Weight + SumWeights(Tail(ps))

\* a walk that stops as soon as the draw is used up
RECURSIVE WeightedWalkInclusive(_, _)
WeightedWalkInclusive(ps, r) ==
    LET r2 == r - providers[Head(ps)].Weight
    IN IF r2 <= 0 \/ Len(ps) = 1 THEN Head(ps) ELSE WeightedWalkInclusive(Tail(ps), r2)

RECURSIVE WeightedWalk(_, _)
WeightedWalk(ps, r) ==
    LET r2 == r - providers[Head(ps)].Weight
    IN IF r2 < 0 \/ Len(ps) = 1 THEN Head(ps) ELSE WeightedWalk(Tail(ps), r2)

weightedRandom(ps, rr) ==
    LET totalWeight == SumWeights(ps)
    IN IF totalWeight = 0
       THEN {[name |-> ps[i], rr |-> rr] : i \in 1..Len(ps)}
       ELSE {[name |-> WeightedWalk(ps, r), rr |-> rr] : r \in 0..(totalWeight - 1)}

Range(ps) == {ps[i] : i \in 1..Len(ps)}

\* sort.Slice sorts a slice shorter than this by insertion
SmallSortLen == 12

\* insertion of n into the sorted s: n moves left past the peers of lower priority
RECURSIVE InsertByPriority(_, _)
InsertByPriority(s, n) ==
    IF s = <<>> THEN <<n>>
    ELSE IF providers[n].Priority > providers[s[Len(s)]].Priority
         THEN Append(InsertByPriority(SubSeq(s, 1, Len(s) - 1), n), s[Len(s)])
         ELSE Append(s, n)

RECURSIVE insertionSort(_)
insertionSort(ps) ==
    IF ps = <<>> THEN <<>>
    ELSE InsertByPriority(insertionSort(SubSeq(ps, 1, Len(ps) - 1)), ps[Len(ps)])

\* the orders sort.Slice can leave the slice in: it is not stable, but a short
\* slice is sorted by insertion, which keeps peers of equal priority in the
\* order they came in
SortedByPriority(ps) ==
    IF Len(ps) < SmallSortLen
    THEN {insertionSort(ps)}
    ELSE {s \in Orders(Range(ps)) :
            \A i \in 1..(Len(s) - 1) : providers[s[i]].Priority >= providers[s[i + 1]].Priority}

priority(ps, rr) == {[name |-> s[1], rr |-> rr] : s \in SortedByPriority(ps)}

failover(stats, ps, rr) ==
    {[name |-> LET h == {i \in 1..Len(s) : GetProviderStats(stats, s[i]).IsHealthy}
               IN IF h = {} THEN s[1] ELSE s[CHOOSE i \in h : \A j \in h : i <= j],
      rr |-> rr] : s \in SortedByPriority(ps)}

\* the outcomes of SelectProvider: {} is the error "no (healthy) providers"
SelectProvider(stats, ps, mode, rr) ==
    LET activeProviders == filterHealthyProviders(stats, ps)
    IN IF activeProviders = <<>> THEN {}
       ELSE CASE mode = "round_robin" -> roundRobin(activeProviders, rr)
              [] mode = "weighted"    -> weightedRandom(activeProviders, rr)
              [] mode = "priority"    -> priority(activeProviders, rr)
              [] mode = "failover"    -> failover(stats, activeProviders, rr)
              [] OTHER                -> roundRobin(activeProviders, rr)

\* an update that flags a peer from its first failed call on
UpdateStatsHasty(stats, name, callSucceeded, t) ==
    LET s == GetProviderStats(stats, name)
        total == s.TotalCalls + 1
        failed == IF callSucceeded THEN s.FailedCalls ELSE s.FailedCalls + 1
        low == (total - failed) * 100 < UnhealthyRate * total
    IN Put(stats, name, [s EXCEPT !.TotalCalls = total, !.FailedCalls = failed,
                                  !.LastCallTime = t,
                                  !.IsHealthy = IF low THEN FALSE ELSE s.IsHealthy])

\* an update that counts every call as failed
UpdateStatsAllFailed(stats, name, callSucceeded, t) ==
    LET s == GetProviderStats(stats, name)
    IN Put(stats, name, [s EXCEPT !.TotalCalls = s.TotalCalls + 1,
                                  !.FailedCalls = s.FailedCalls + 1,
                                  !.LastCallTime = t])

UpdateStats(stats, name, callSucceeded, t) ==
    LET s == GetProviderStats(stats, name)
        total == s.TotalCalls + 1
        failed == IF callSucceeded THEN s.FailedCalls ELSE s.FailedCalls + 1
        \* SuccessRate = (total - failed) / total * 100, compared with 50
        low == total > UnhealthyMinCalls /\ (total - failed) * 100 < UnhealthyRate * total
    IN Put(stats, name, [s EXCEPT !.TotalCalls = total, !.FailedCalls = failed,
                                  !.LastCallTime = t,
                                  !.IsHealthy = IF low THEN FALSE ELSE s.IsHealthy])

\* a counter that is let fall below zero
IncrementActiveCallsUnfloored(stats, name, delta) ==
    LET s == GetProviderStats(stats, name)
    IN Put(stats, name, [s EXCEPT !.ActiveCalls = s.ActiveCalls + delta])

IncrementActiveCalls(stats, name, delta) ==
    LET s == GetProviderStats(stats, name)
        a == s.ActiveCalls + delta
    IN Put(stats, name, [s EXCEPT !.ActiveCalls = IF a < 0 THEN 0 ELSE a])

Since(t) == IF t = ZeroTime THEN HealthResetMinutes + StaleMinutes + 1 ELSE (now - t) * TickMinutes

\* a monitor that re-marks a peer healthy and keeps its counters
checkProviderHealthKeepingCounters(stats) ==
    [n \in DOMAIN stats |->
        IF Since(stats[n].LastCallTime) > HealthResetMinutes /\ ~stats[n].IsHealthy
        THEN [stats[n] EXCEPT !.IsHealthy = TRUE]
        ELSE stats[n]]

checkProviderHealth(stats) ==
    [n \in DOMAIN stats |->
        IF Since(stats[n].LastCallTime) > HealthResetMinutes /\ ~stats[n].IsHealthy
        THEN [stats[n] EXCEPT !.IsHealthy = TRUE, !.FailedCalls = 0, !.TotalCalls = 0]
        ELSE stats[n]]

-----------------------------------------------------------------------------
(* The dids and call_verifications tables *)

\* the rows SELECT ... WHERE in_use = 0 [AND provider_name = ?] can return;
\* the second query runs only when the first returns no row
getAvailableDID(pool, providerName) ==
    LET own == {d \in DOMAIN pool : ~pool[d].InUse /\ pool[d].ProviderName = providerName}
    IN IF own # {} THEN own ELSE {d \in DOMAIN pool : ~pool[d].InUse}

markDIDInUse(pool, did, destination) ==
    [pool EXCEPT ![did].InUse = TRUE, ![did].Destination = destination]

\* a release that clears the flag and keeps the destination
releaseDIDKeepingDestination(pool, did, ok) ==
    IF ok /\ did \in DOMAIN pool
    THEN [pool EXCEPT ![did].InUse = FALSE]
    ELSE pool

\* ok = FALSE: the UPDATE failed and the row is as it was
releaseDID(pool, did, ok) ==
    IF ok /\ did \in DOMAIN pool
    THEN [pool EXCEPT ![did].InUse = FALSE, ![did].Destination = None]
    ELSE pool

VerificationRecord(callID, step, expected, received, sourceIP, verified) ==
    [CallID |-> callID, Step |-> step, Expected |-> expected, Received |-> received,
     SourceIP |-> sourceIP, Verified |-> verified]

\* The table is append-only and the program never reads it, so the model keeps
\* the rows a step appends and not the rows before them.
\* ok = FALSE: the INSERT failed, which is logged and nothing else
storeVerificationRecord(rec, ok) == IF ok THEN <<rec>> ELSE <<>>

\* a check that looks at the address only for AuthType "ip"
verifyProviderIPOnlyIP(provider, sourceIP) ==
    LET ip == sourceIP[1]
    IN (providers[provider].AuthType = "ip") => providers[provider].Host = ip

verifyProviderIP(provider, sourceIP) ==
    LET ip == sourceIP[1]
    IN (providers[provider].AuthType \in {"ip", "both"}) => providers[provider].Host = ip

-----------------------------------------------------------------------------
(* The routing engine (router.Router) *)

NoResponse ==
    [Status |-> None, DIDAssigned |-> None, NextHop |-> <<>>, ANIToSend |-> None,
     DNISToSend |-> None]

\* fmt.Sprintf("endpoint-%s", name)
Endpoint(name) == <<"endpoint", name>>

\* what `last` keeps of a leg handler that just returned: which one, its error
\* ("" for none), its response and the storage statements of it that failed;
\* NoOp after any other step
OpFailing(op, err, resp, failed) == [op |-> op, err |-> err, resp |-> resp, failed |-> failed]

Op(op, err, resp) == OpFailing(op, err, resp, {})

\* the statement on `table` when it fails
Failing(table, ok) == IF ok THEN {} ELSE {table}

NoOp == Op(None, "", NoResponse)

\* the AGI status lines
AGI_SUCCESS == "200 result=1"
AGI_FAILURE == "200 result=0"

\* what `out` keeps of a gateway session: the channel variables it set with
\* SET VARIABLE and the status line it ended on; NoSession after any other step
Session(variables, status) == [vars |-> variables, status |-> status]

NoSession == Session(EmptyMap, None)

\* what `ret` keeps of a registry or pool call: the call, its argument, the
\* value it returned, its error ("" for none) and the table as the call found it
Ret(op, arg, val, err, pre) == [op |-> op, arg |-> arg, val |-> val, err |-> err, pre |-> pre]

NoRet == Ret(None, None, None, "", None)

\* the gateway before NewServer
NoGateway == None

\* a record whose ANI for leg 2 is the caller's number
CallRecordKeepingANI(callID, ani, dnis, did, inbound, inter, final, t) ==
    [CallID |-> callID, OriginalANI |-> ani, OriginalDNIS |-> dnis, TransformedANI |-> ani,
     AssignedDID |-> did, InboundProvider |-> inbound, IntermediateProvider |-> inter,
     FinalProvider |-> final, Status |-> "ACTIVE", CurrentStep |-> "S1_TO_S2",
     StartTime |-> t]

CallRecord(callID, ani, dnis, did, inbound, inter, final, t) ==
    [CallID |-> callID, OriginalANI |-> ani, OriginalDNIS |-> dnis, TransformedANI |-> dnis,
     AssignedDID |-> did, InboundProvider |-> inbound, IntermediateProvider |-> inter,
     FinalProvider |-> final, Status |-> "ACTIVE", CurrentStep |-> "S1_TO_S2",
     StartTime |-> t]

\* leg 1 up to the acquire: the route, the candidate peers and the two
\* selections.  Each outcome is an error with the cursor as written so far, or
\* the two selected peers.
SelectPeers(inboundProvider) ==
    LET Fail(err, rr) == [err |-> err, inter |-> None, final |-> None, rr |-> rr]
        routes == GetRouteForInbound(inboundProvider)
    IN IF routes = {} THEN {Fail("no-route", roundRobinIndex)}
       ELSE UNION {
         LET route == providerRoutes[rn]
             ips == GetProvidersByName(route.IntermediateProvider)
             fps == GetProvidersByName(route.FinalProvider)
         IN IF ips = {} THEN {Fail("no-providers", roundRobinIndex)}
            ELSE UNION {
              LET sel1 == SelectProvider(providerStats, ip, route.LoadBalanceMode,
                                         roundRobinIndex)
              IN IF sel1 = {} THEN {Fail("no-healthy-peers", roundRobinIndex)}
                 ELSE UNION {
                   IF fps = {} THEN {Fail("no-providers", s1.rr)}
                   ELSE UNION {
                     LET sel2 == SelectProvider(providerStats, fp, route.LoadBalanceMode,
                                                s1.rr)
                     IN IF sel2 = {} THEN {Fail("no-healthy-peers", s1.rr)}
                        ELSE {[err |-> "", inter |-> s1.name, final |-> s2.name,
                               rr |-> s2.rr] : s2 \in sel2}
                     : fp \in fps}
                   : s1 \in sel1}
              : ip \in ips}
         : rn \in routes}

\* leg 1 returns an error: nothing but the round-robin cursor has been written
IncomingRejected(callID, ani, dnis, err, rr, failed) ==
    /\ roundRobinIndex' = rr
    /\ last' = OpFailing("incoming", err, NoResponse, failed)
    /\ verifications' = <<>>
    /\ ended' = {}
    /\ UNCHANGED <<providers, providerRoutes, dids, activeCalls, didToCall, providerStats,
                   now>>

\* a leg 1 that undoes its work and fails when the call record cannot be stored
IncomingAcceptedOrRolledBack(callID, ani, dnis, inbound, inter, final, did, rr, recOk, verOk) ==
    IF ~recOk
    THEN /\ verOk
         /\ IncomingRejected(callID, ani, dnis, "storage-error", rr,
                             Failing("call_records", recOk))
    ELSE /\ dids' = markDIDInUse(dids, did, dnis)
         /\ activeCalls' = Put(activeCalls, callID,
                               CallRecord(callID, ani, dnis, did, inbound, inter, final, now))
         /\ didToCall' = Put(didToCall, did, callID)
         /\ verifications' = storeVerificationRecord(
                 VerificationRecord(callID, "S1_TO_S2", <<ani, dnis>>, <<ani, dnis>>, <<>>,
                                    TRUE), verOk)
         /\ providerStats' = IncrementActiveCalls(
                                 IncrementActiveCalls(providerStats, inter, 1), final, 1)
         /\ roundRobinIndex' = rr
         /\ last' = OpFailing("incoming", "",
                              [Status |-> "success", DIDAssigned |-> did,
                               NextHop |-> Endpoint(inter), ANIToSend |-> dnis,
                               DNISToSend |-> did],
                              Failing("call_verifications", verOk))
         /\ ended' = {}
         /\ UNCHANGED <<providers, providerRoutes, now>>

\* leg 1 from markDIDInUse on: the DID row, the ledger, the call_records row,
\* the verification row, the active-call counters and the response.  recOk
\* and verOk are FALSE when the INSERT fails, which is logged.
IncomingAccepted(callID, ani, dnis, inbound, inter, final, did, rr, recOk, verOk) ==
    /\ dids' = markDIDInUse(dids, did, dnis)
    /\ activeCalls' = Put(activeCalls, callID,
                          CallRecord(callID, ani, dnis, did, inbound, inter, final, now))
    /\ didToCall' = Put(didToCall, did, callID)
    /\ verifications' = storeVerificationRecord(
            VerificationRecord(callID, "S1_TO_S2", <<ani, dnis>>, <<ani, dnis>>, <<>>, TRUE),
            verOk)
    /\ providerStats' = IncrementActiveCalls(IncrementActiveCalls(providerStats, inter, 1),
                                             final, 1)
    /\ roundRobinIndex' = rr
    /\ last' = OpFailing("incoming", "",
                         [Status |-> "success", DIDAssigned |-> did, NextHop |-> Endpoint(inter),
                          ANIToSend |-> dnis, DNISToSend |-> did],
                         Failing("call_records", recOk) \cup Failing("call_verifications", verOk))
    /\ ended' = {}
    /\ UNCHANGED <<providers, providerRoutes, now>>

\* leg 1 from getAvailableDID on, the peers being selected
IncomingAcquire(callID, ani, dnis, inbound, inter, final, rr) ==
    \E selOk, markOk, recOk, verOk \in BOOLEAN :
        LET free == getAvailableDID(dids, inter)
        IN IF ~selOk \/ free = {}
           THEN /\ markOk /\ recOk /\ verOk
                /\ IncomingRejected(callID, ani, dnis, "no-did", rr,
                                    Failing("dids.select", selOk))
           ELSE \E did \in free :
                  IF ~markOk
                  THEN /\ recOk /\ verOk
                       /\ IncomingRejected(callID, ani, dnis, "storage-error", rr,
                                           Failing("dids.mark", markOk))
                  ELSE IncomingAccepted(callID, ani, dnis, inbound, inter, final, did, rr,
                                        recOk, verOk)

ProcessIncomingCall(callID, ani, dnis, inboundProvider) ==
    \E ch \in SelectPeers(inboundProvider) :
        IF ch.err # ""
        THEN IncomingRejected(callID, ani, dnis, ch.err, ch.rr, {})
        ELSE IncomingAcquire(callID, ani, dnis, inboundProvider, ch.inter, ch.final, ch.rr)

\* leg 3 or leg 5 returns an error before the verification: nothing is written
LegRejected(op, err) ==
    /\ last' = Op(op, err, NoResponse)
    /\ verifications' = <<>>
    /\ ended' = {}
    /\ UNCHANGED <<providers, providerRoutes, dids, activeCalls, didToCall, providerStats,
                   roundRobinIndex, now, mu, pc, hsel, sel, ret>>

\* a rejection that also releases the call's DID
LegUnauthorizedReleasing(op, step, callID, ani, dnis, src, verOk) ==
    /\ verifications' = storeVerificationRecord(
            VerificationRecord(callID, step, <<ani, dnis>>, <<ani, dnis>>, src, FALSE), verOk)
    /\ last' = OpFailing(op, "unauthorized-source", NoResponse,
                         Failing("call_verifications", verOk))
    /\ ended' = {}
    /\ dids' = releaseDID(dids, activeCalls[callID].AssignedDID, TRUE)
    /\ UNCHANGED <<providers, providerRoutes, activeCalls, didToCall, providerStats,
                   roundRobinIndex, now, mu, pc, hsel, sel, ret>>

\* leg 3 or leg 5 fails the source check: a verification row with verified =
\* false is written and the error is returned
LegUnauthorized(op, step, callID, ani, dnis, src, verOk) ==
    /\ verifications' = storeVerificationRecord(
            VerificationRecord(callID, step, <<ani, dnis>>, <<ani, dnis>>, src, FALSE), verOk)
    /\ last' = OpFailing(op, "unauthorized-source", NoResponse,
                         Failing("call_verifications", verOk))
    /\ ended' = {}
    /\ UNCHANGED <<providers, providerRoutes, dids, activeCalls, didToCall, providerStats,
                   roundRobinIndex, now, mu, pc, hsel, sel, ret>>

\* a leg 3 that fails the call when ani2 is not the original DNIS
ReturnAcceptedStrict(callID, ani2, did, src, verOk) ==
    LET record == activeCalls[callID]
    IN IF ani2 # record.OriginalDNIS
       THEN verOk /\ LegRejected("return", "ani-mismatch")
       ELSE /\ verifications' = storeVerificationRecord(
                    VerificationRecord(callID, "S3_TO_S2", <<record.OriginalDNIS, did>>,
                                       <<ani2, did>>, src, TRUE), verOk)
            /\ activeCalls' = [activeCalls EXCEPT ![callID].CurrentStep = "S3_TO_S2",
                                                  ![callID].Status = "RETURNED_FROM_S3"]
            /\ last' = OpFailing("return", "",
                                 [Status |-> "success", DIDAssigned |-> "",
                                  NextHop |-> Endpoint(record.FinalProvider),
                                  ANIToSend |-> record.OriginalANI,
                                  DNISToSend |-> record.OriginalDNIS],
                                 Failing("call_verifications", verOk))
            /\ ended' = {}
            /\ UNCHANGED <<providers, providerRoutes, dids, didToCall, providerStats,
                           roundRobinIndex, now, mu, pc, hsel, sel, ret>>

\* leg 3 after the source check passed
ReturnAccepted(callID, ani2, did, src, verOk) ==
    LET record == activeCalls[callID]
    IN /\ verifications' = storeVerificationRecord(
               VerificationRecord(callID, "S3_TO_S2", <<record.OriginalDNIS, did>>,
                                  <<ani2, did>>, src, TRUE), verOk)
       /\ activeCalls' = [activeCalls EXCEPT ![callID].CurrentStep = "S3_TO_S2",
                                             ![callID].Status = "RETURNED_FROM_S3"]
       /\ last' = OpFailing("return", "",
                            [Status |-> "success", DIDAssigned |-> "",
                             NextHop |-> Endpoint(record.FinalProvider),
                             ANIToSend |-> record.OriginalANI,
                             DNISToSend |-> record.OriginalDNIS],
                            Failing("call_verifications", verOk))
       /\ ended' = {}
       /\ UNCHANGED <<providers, providerRoutes, dids, didToCall, providerStats,
                      roundRobinIndex, now, mu, pc, hsel, sel, ret>>

\* the claimed peer name `provider` is only logged
ProcessReturnCall(ani2, did, provider, sourceIP) ==
    IF did \notin DOMAIN didToCall
    THEN LegRejected("return", "call-not-found")
    ELSE LET callID == didToCall[did]
         IN IF callID \notin DOMAIN activeCalls
            THEN LegRejected("return", "call-not-found")
            ELSE LET record == activeCalls[callID]
                 IN IF ~GetProvider(record.IntermediateProvider)
                    THEN LegRejected("return", "provider-not-found")
                    ELSE \E verOk \in BOOLEAN :
                           IF ~verifyProviderIP(record.IntermediateProvider, sourceIP)
                           THEN LegUnauthorized("return", "S3_TO_S2", callID, ani2, did, sourceIP,
                                                verOk)
                           ELSE ReturnAccepted(callID, ani2, did, sourceIP, verOk)

\* the record leg 5 works on: the one under callID, else any live record with
\* these originals (the first the map iteration visits); {} is call-not-found
FindCall(callID, ani, dnis) ==
    IF callID \in DOMAIN activeCalls
    THEN {callID}
    ELSE {c \in DOMAIN activeCalls :
            activeCalls[c].OriginalANI = ani /\ activeCalls[c].OriginalDNIS = dnis}

\* the counters are capped at MaxTotalCalls in the model
WithinCap(stats) == \A n \in DOMAIN stats : stats[n].TotalCalls <= MaxTotalCalls

\* leg 5 after the source check passed.  verOk, relOk and updOk are FALSE when
\* the INSERT of the verification row, the UPDATE that releases the DID and
\* the UPDATE of the call_records row fail, which is logged.
FinalAccepted(callID, ani, dnis, src, verOk, relOk, updOk) ==
    LET record == activeCalls[callID]
        st1 == UpdateStats(providerStats, record.IntermediateProvider, TRUE, now)
        st2 == UpdateStats(st1, record.FinalProvider, TRUE, now)
        st3 == IncrementActiveCalls(st2, record.IntermediateProvider, -1)
        st4 == IncrementActiveCalls(st3, record.FinalProvider, -1)
    IN /\ WithinCap(st4)
       /\ verifications' = storeVerificationRecord(
               VerificationRecord(callID, "S4_TO_S2",
                                  <<record.OriginalANI, record.OriginalDNIS>>, <<ani, dnis>>,
                                  src, TRUE), verOk)
       /\ providerStats' = st4
       /\ dids' = releaseDID(dids, record.AssignedDID, relOk)
       /\ activeCalls' = Del(activeCalls, callID)
       /\ didToCall' = Del(didToCall, record.AssignedDID)
       /\ last' = OpFailing("final", "", NoResponse,
                            Failing("call_verifications", verOk) \cup Failing("dids.release", relOk)
                                \cup Failing("call_records", updOk))
       /\ ended' = {[record EXCEPT !.Status = "COMPLETED", !.CurrentStep = "COMPLETED"]}
       /\ UNCHANGED <<providers, providerRoutes, roundRobinIndex, now, mu, pc, hsel, sel, ret>>

\* the claimed peer name `provider` is only logged
ProcessFinalCall(callID, ani, dnis, provider, sourceIP) ==
    LET found == FindCall(callID, ani, dnis)
    IN IF found = {}
       THEN LegRejected("final", "call-not-found")
       ELSE \E cid \in found :
         LET record == activeCalls[cid]
         IN IF ~GetProvider(record.FinalProvider)
            THEN LegRejected("final", "provider-not-found")
            ELSE \E verOk, relOk, updOk \in BOOLEAN :
                   IF ~verifyProviderIP(record.FinalProvider, sourceIP)
                   THEN /\ relOk /\ updOk
                        /\ LegUnauthorized("final", "S4_TO_S2", cid, ani, dnis, sourceIP, verOk)
                   ELSE FinalAccepted(cid, ani, dnis, sourceIP, verOk, relOk, updOk)

Stale(record) == (now - record.StartTime) * TickMinutes > StaleMinutes

\* the sweep's writes for the stale records S, one record after the other
RECURSIVE SweepStats(_, _)
SweepStats(stats, S) ==
    IF S = {} THEN stats
    ELSE LET c == CHOOSE x \in S : TRUE
             record == activeCalls[c]
         IN OnlyOf(
              {SweepStats(st4, S \ {c}) :
                 st4 \in {IncrementActiveCalls(st3, record.FinalProvider, -1) :
                   st3 \in {IncrementActiveCalls(st2, record.IntermediateProvider, -1) :
                     st2 \in {UpdateStats(st1, record.FinalProvider, FALSE, now) :
                       st1 \in {UpdateStats(stats, record.IntermediateProvider, FALSE, now)}}}}})

RECURSIVE SweepDIDs(_, _, _)
SweepDIDs(pool, S, failed) ==
    IF S = {} THEN pool
    ELSE LET c == CHOOSE x \in S : TRUE
         IN SweepDIDs(releaseDID(pool, activeCalls[c].AssignedDID, c \notin failed),
                      S \ {c}, failed)

RECURSIVE SweepIndex(_, _)
SweepIndex(index, S) ==
    IF S = {} THEN index
    ELSE LET c == CHOOSE x \in S : TRUE
         IN SweepIndex(Del(index, activeCalls[c].AssignedDID), S \ {c})

\* failed: the stale calls whose release UPDATE fails (the error is dropped)
cleanupStaleCalls ==
    LET stale == {c \in DOMAIN activeCalls : Stale(activeCalls[c])}
    IN \E failed \in SUBSET stale :
         /\ WithinCap(SweepStats(providerStats, stale))
         /\ providerStats' = SweepStats(providerStats, stale)
         /\ dids' = SweepDIDs(dids, stale, failed)
         /\ activeCalls' = [c \in (DOMAIN activeCalls) \ stale |-> activeCalls[c]]
         /\ didToCall' = SweepIndex(didToCall, stale)
         /\ last' = NoOp
         /\ out' = NoSession
         /\ verifications' = <<>>
         /\ ended' = {[activeCalls[c] EXCEPT !.Status = "ABANDONED", !.CurrentStep = "CLEANUP"] :
                         c \in stale}
         /\ UNCHANGED <<providers, providerRoutes, roundRobinIndex, now, mu, pc, hsel, sel, ret, gw>>

\* AGISession.handleHangup: the engine is not called
handleHangup(callID) ==
    /\ last' = NoOp
    /\ out' = Session(EmptyMap, AGI_SUCCESS)
    /\ verifications' = <<>>
    /\ ended' = {}
    /\ UNCHANGED <<providers, providerRoutes, dids, activeCalls, didToCall, providerStats,
                   roundRobinIndex, now, mu, pc, hsel, sel, ret, gw>>

\* the operator's `did release <number>`
CliReleaseDID(number) ==
    /\ number \in DOMAIN dids
    /\ \E ok \in BOOLEAN : dids' = releaseDID(dids, number, ok)
    /\ last' = NoOp
    /\ out' = NoSession
    /\ verifications' = <<>>
    /\ ended' = {}
    /\ UNCHANGED <<providers, providerRoutes, activeCalls, didToCall, providerStats,
                   roundRobinIndex, now, mu, pc, hsel, sel, ret, gw>>

HealthMonitor ==
    /\ providerStats' = checkProviderHealth(providerStats)
    /\ last' = NoOp
    /\ out' = NoSession
    /\ verifications' = <<>>
    /\ ended' = {}
    /\ UNCHANGED <<providers, providerRoutes, dids, activeCalls, didToCall,
                   roundRobinIndex, now, mu, pc, hsel, sel, ret, gw>>

Tick ==
    /\ now < MaxTime
    /\ now' = now + 1
    /\ last' = NoOp
    /\ out' = NoSession
    /\ verifications' = <<>>
    /\ ended' = {}
    /\ UNCHANGED <<providers, providerRoutes, dids, activeCalls, didToCall, providerStats,
                   roundRobinIndex, mu, pc, hsel, sel, ret, gw>>

Init ==
    /\ providers = SeedProviders
    /\ providerRoutes = Put(EmptyMap, "r", SeedRoute("weighted"))
    /\ dids = SeedDIDs
    /\ activeCalls = EmptyMap
    /\ didToCall = EmptyMap
    /\ providerStats = EmptyMap
    /\ roundRobinIndex = EmptyMap
    /\ verifications = <<>>
    /\ now = 0
    /\ last = NoOp
    /\ mu = 0
    /\ pc = EmptyMap
    /\ hsel = EmptyMap
    /\ ended = {}
    /\ sel = <<>>
    /\ out = NoSession
    /\ ret = NoRet
    /\ gw = NoGateway

\* AGISession.handleIncomingCall: the engine's answer becomes channel variables
handleIncomingCall(callID, ani, dnis, inboundProvider) ==
    /\ ProcessIncomingCall(callID, ani, dnis, inboundProvider)
    /\ out' = IF last'.err # ""
              THEN Session([ROUTER_STATUS |-> "failed", ROUTER_ERROR |-> last'.err], AGI_SUCCESS)
              ELSE Session([ROUTER_STATUS |-> "success",
                            DID_ASSIGNED |-> last'.resp.DIDAssigned,
                            NEXT_HOP |-> last'.resp.NextHop,
                            ANI_TO_SEND |-> last'.resp.ANIToSend,
                            DNIS_TO_SEND |-> last'.resp.DNISToSend], AGI_SUCCESS)
    /\ UNCHANGED <<mu, pc, hsel, sel, ret, gw>>

\* AGISession.handleReturnCall
handleReturnCall(ani2, did, intermediateProvider, sourceIP) ==
    /\ ProcessReturnCall(ani2, did, intermediateProvider, sourceIP)
    /\ out' = IF last'.err # ""
              THEN Session([ROUTER_STATUS |-> "failed", ROUTER_ERROR |-> last'.err], AGI_SUCCESS)
              ELSE Session([ROUTER_STATUS |-> "success",
                            NEXT_HOP |-> last'.resp.NextHop,
                            ANI_TO_SEND |-> last'.resp.ANIToSend,
                            DNIS_TO_SEND |-> last'.resp.DNISToSend], AGI_SUCCESS)
    /\ UNCHANGED gw

\* AGISession.handleFinalCall: the engine's error is logged
handleFinalCall(callID, ani, dnis, finalProvider, sourceIP) ==
    /\ ProcessFinalCall(callID, ani, dnis, finalProvider, sourceIP)
    /\ out' = Session(EmptyMap, AGI_SUCCESS)
    /\ UNCHANGED gw

Incoming == \E c \in CallIDs, a \in ANIs, n \in DNISs, i \in InboundNames :
                handleIncomingCall(c, a, n, i)

Return == \E a \in LegNumbers, d \in DIDNumbers, p \in ClaimedNames, ip \in SourceIPs :
              handleReturnCall(a, d, p, ip)

Final == \E c \in CallIDs, a \in ANIs, n \in LegNumbers, p \in ClaimedNames, ip \in SourceIPs :
             handleFinalCall(c, a, n, p, ip)

Cleanup == cleanupStaleCalls

Hangup == \E c \in CallIDs : handleHangup(c)

CliRelease == \E d \in DIDNumbers : CliReleaseDID(d)

Next ==
    \/ Incoming
    \/ Return
    \/ Final
    \/ Cleanup
    \/ Hangup
    \/ CliRelease
    \/ HealthMonitor
    \/ Tick

Spec == Init /\ [][Next]_vars

-----------------------------------------------------------------------------
(* Concurrent leg-1 handlers.  The gateway starts one goroutine per        *)
(* connection; each handler below is one call of ProcessIncomingCall,      *)
(* split at r.mu.Lock(), at the SELECT of getAvailableDID and at the       *)
(* UPDATE of markDIDInUse.  No storage operation fails in SpecAcquire.     *)

Handlers == 1..NHandlers

AcquireCallIDs == CallIDs \cup {"c3"}

NoLocals ==
    [callID |-> None, ani |-> None, dnis |-> None, inter |-> None, final |-> None,
     did |-> None, err |-> None]

\* the pools the handlers can start on: any rows of the seed, all free
SeedPools == {[d \in D |-> SeedDIDs[d]] : D \in SUBSET DIDNumbers}

\* a lock that never blocks
TryLockUnguarded(h) == TRUE

\* r.mu.Lock() returns only when no other handler holds the mutex
TryLock(h) == mu = 0

\* the deferred r.mu.Unlock()
Unlock == mu' = 0

AcquireLock(h) ==
    /\ pc[h] = "start"
    /\ TryLock(h)
    /\ mu' = h
    /\ pc' = [pc EXCEPT ![h] = "locked"]
    /\ \E c \in AcquireCallIDs, a \in ANIs, n \in DNISs :
         hsel' = [hsel EXCEPT ![h].callID = c, ![h].ani = a, ![h].dnis = n]
    /\ last' = NoOp
    /\ verifications' = <<>>
    /\ ended' = {}
    /\ UNCHANGED <<providers, providerRoutes, dids, activeCalls, didToCall, providerStats,
                   roundRobinIndex, now, sel, out, ret, gw>>

\* the handler returns an error and its deferred unlock runs
AcquireFail(h, ch, err) ==
    /\ IncomingRejected(hsel[h].callID, hsel[h].ani, hsel[h].dnis, err, ch.rr, {})
    /\ Unlock
    /\ pc' = [pc EXCEPT ![h] = "done"]
    /\ hsel' = [hsel EXCEPT ![h].inter = ch.inter, ![h].final = ch.final, ![h].err = err]
    /\ UNCHANGED <<sel, out, ret, gw>>

\* route, peers and the SELECT: the handler now holds a number it read as free
AcquireSelect(h) ==
    /\ pc[h] = "locked"
    /\ \E ch \in SelectPeers("s1") :
         IF ch.err # ""
         THEN AcquireFail(h, ch, ch.err)
         ELSE LET free == getAvailableDID(dids, ch.inter)
              IN IF free = {}
                 THEN AcquireFail(h, ch, "no-did")
                 ELSE /\ \E did \in free :
                           hsel' = [hsel EXCEPT ![h].inter = ch.inter, ![h].final = ch.final,
                                                ![h].did = did]
                      /\ pc' = [pc EXCEPT ![h] = "selected"]
                      /\ roundRobinIndex' = ch.rr
                      /\ last' = NoOp
                      /\ verifications' = <<>>
                      /\ ended' = {}
                      /\ UNCHANGED <<providers, providerRoutes, dids, activeCalls, didToCall,
                                     providerStats, now, mu, sel, out, ret, gw>>

\* the UPDATE, the ledger insert and the rest of the handler, then the unlock
AcquireCommit(h) ==
    /\ pc[h] = "selected"
    /\ IncomingAccepted(hsel[h].callID, hsel[h].ani, hsel[h].dnis, "s1", hsel[h].inter,
                        hsel[h].final, hsel[h].did, roundRobinIndex, TRUE, TRUE)
    /\ Unlock
    /\ pc' = [pc EXCEPT ![h] = "done"]
    /\ hsel' = [hsel EXCEPT ![h].err = ""]
    /\ UNCHANGED <<sel, out, ret, gw>>

InitAcquire ==
    /\ providers \in {SeedProviders, [SeedProviders EXCEPT !["s4"].MaxChannels = 0]}
    /\ providerRoutes = Put(EmptyMap, "r", SeedRoute("weighted"))
    /\ dids \in SeedPools
    /\ activeCalls = EmptyMap
    /\ didToCall = EmptyMap
    /\ providerStats = EmptyMap
    /\ roundRobinIndex = EmptyMap
    /\ verifications = <<>>
    /\ now = 0
    /\ last = NoOp
    /\ mu = 0
    /\ pc = [h \in Handlers |-> "start"]
    /\ hsel = [h \in Handlers |-> NoLocals]
    /\ ended = {}
    /\ sel = <<>>
    /\ out = NoSession
    /\ ret = NoRet
    /\ gw = NoGateway

LockStep == \E h \in Handlers : AcquireLock(h)

SelectStep == \E h \in Handlers : AcquireSelect(h)

CommitStep == \E h \in Handlers : AcquireCommit(h)

NextAcquire ==
    \/ LockStep
    \/ SelectStep
    \/ CommitStep

SpecAcquire == InitAcquire /\ [][NextAcquire]_vars

-----------------------------------------------------------------------------
(* Properties of the ledger and the pool *)

LiveStatuses == {"ACTIVE", "RETURNED_FROM_S3"}

\* the live records that reference DID d
Holders(d) ==
    {c \in DOMAIN activeCalls :
        activeCalls[c].Status \in LiveStatuses /\ activeCalls[c].AssignedDID = d}

\* C1: every DID marked in-use in the pool is the assigned DID of exactly one
\* live record of the ledger (status ACTIVE or RETURNED_FROM_S3).
InUseHasOneHolder ==
    \A d \in DOMAIN dids : dids[d].InUse => Cardinality(Holders(d)) = 1

\* C2: the DID of every live record is in-use in the pool and its destination
\* is the record's original DNIS.
LiveRecordHoldsDID ==
    \A c \in DOMAIN activeCalls :
        activeCalls[c].Status \in LiveStatuses =>
            LET d == activeCalls[c].AssignedDID
            IN /\ d \in DOMAIN dids
               /\ dids[d].InUse
               /\ dids[d].Destination = activeCalls[c].OriginalDNIS

\* C3: after a leg 5 that returns success, and after a sweep, the DID of every
\* call the step took out of the ledger is free in the pool.
ReleasedOnTermination ==
    [][((last'.op = "final" /\ last'.err = "" /\ Final) \/ Cleanup) =>
          \A c \in (DOMAIN activeCalls) \ (DOMAIN activeCalls') :
              ~dids'[activeCalls[c].AssignedDID].InUse]_vars

\* C5: the DID index maps d to c exactly when the call-id index holds a record
\* for c whose assigned DID is d.
IndicesAgree ==
    \A d \in DIDNumbers, c \in CallIDs :
        (d \in DOMAIN didToCall /\ didToCall[d] = c)
            <=> (c \in DOMAIN activeCalls /\ activeCalls[c].AssignedDID = d)

\* C6: a leg 1 whose call-id is already in the ledger returns an error and
\* leaves the pool, both indices and the counters as they were.
DuplicateCallIDRejected ==
    [][last'.op = "incoming" =>
          \A c \in CallIDs, a \in ANIs, n \in DNISs, i \in InboundNames :
              (c \in DOMAIN activeCalls /\ ProcessIncomingCall(c, a, n, i)) =>
                  /\ last'.err # ""
                  /\ UNCHANGED <<dids, activeCalls, didToCall, providerStats>>]_vars

LegOneErrors == {"no-route", "no-healthy-peers", "no-did", "storage-error"}

\* C7: after a leg 1 that fails with no-route, no-healthy-peers, no-did or a
\* storage error, the ledger has no record for its call-id, and the pool and the
\* counters are as they were.
FailedIncomingLeavesNoRecord ==
    [][(last'.op = "incoming" /\ last'.err \in LegOneErrors) =>
          \A c \in CallIDs, a \in ANIs, n \in DNISs, i \in InboundNames :
              ProcessIncomingCall(c, a, n, i) =>
                  /\ c \notin DOMAIN activeCalls'
                  /\ UNCHANGED <<dids, providerStats>>]_vars

\* C8: a leg 1 that returns success leaves a record under its call-id with the
\* originals, transformed ANI = dnis, status ACTIVE, step S1_TO_S2, the DID it
\* took from the free ones and two peers the selection can return; the
\* response names that DID, the endpoint of that intermediate peer, dnis as the
\* ANI to send and the DID as the DNIS to send.
IncomingCreatesRecord ==
    [][(last'.op = "incoming" /\ last'.err = "") =>
        \A c \in CallIDs, a \in ANIs, n \in DNISs, i \in InboundNames :
          ProcessIncomingCall(c, a, n, i) =>
              /\ c \in DOMAIN activeCalls'
              /\ LET record == activeCalls'[c]
                     did == record.AssignedDID
                 IN /\ record.CallID = c
                    /\ record.OriginalANI = a
                    /\ record.OriginalDNIS = n
                    /\ record.TransformedANI = n
                    /\ record.Status = "ACTIVE"
                    /\ record.CurrentStep = "S1_TO_S2"
                    /\ record.InboundProvider = i
                    /\ \E ch \in SelectPeers(i) :
                          /\ ch.err = ""
                          /\ record.IntermediateProvider = ch.inter
                          /\ record.FinalProvider = ch.final
                    /\ did \in DOMAIN dids /\ ~dids[did].InUse /\ dids'[did].InUse
                    /\ didToCall'[did] = c
                    /\ last'.resp = [Status |-> "success", DIDAssigned |-> did,
                                     NextHop |-> Endpoint(record.IntermediateProvider),
                                     ANIToSend |-> n, DNISToSend |-> did]]_vars

\* leg 1 has just returned success and its record is in the ledger
IncomingSucceeded ==
    /\ last.op = "incoming" /\ last.err = ""
    /\ \E c \in DOMAIN activeCalls :
          /\ activeCalls[c].AssignedDID = last.resp.DIDAssigned
          /\ activeCalls[c].CurrentStep = "S1_TO_S2"

\* the stored peer checks the address and the address is not its host
SourceMismatch(peer, sourceIP) ==
    /\ peer \in DOMAIN providers
    /\ providers[peer].AuthType \in {"ip", "both"}
    /\ providers[peer].Host # sourceIP[1]

\* the verification rows a rejected leg may leave: none, or one for that call
\* with verified = false
RejectionRows(rows, callIDs) ==
    /\ Len(rows) <= 1
    /\ \A k \in 1..Len(rows) : rows[k].CallID \in callIDs /\ ~rows[k].Verified

\* the step is a leg 3 whose source does not match the stored intermediate peer
ReturnFromWrongSource ==
    /\ last'.op = "return"
    /\ \E a \in LegNumbers, d \in DIDNumbers, p \in ClaimedNames, ip \in SourceIPs :
        /\ d \in DOMAIN didToCall /\ didToCall[d] \in DOMAIN activeCalls
        /\ SourceMismatch(activeCalls[didToCall[d]].IntermediateProvider, ip)
        /\ ProcessReturnCall(a, d, p, ip)

\* the step is a leg 5 whose source does not match the stored final peer
FinalFromWrongSource ==
    /\ last'.op = "final"
    /\ \E c \in CallIDs, a \in ANIs, n \in LegNumbers, p \in ClaimedNames, ip \in SourceIPs :
        /\ FindCall(c, a, n) # {}
        /\ \A x \in FindCall(c, a, n) : SourceMismatch(activeCalls[x].FinalProvider, ip)
        /\ ProcessFinalCall(c, a, n, p, ip)

RejectionLeavesCallUntouched ==
    [][(last'.err = "unauthorized-source" /\ (Return \/ Final)) =>
          UNCHANGED <<activeCalls, didToCall, dids, providerStats>>]_vars

\* a leg 5 has just been rejected for its source while its call, already
\* returned from leg 3, holds a DID
FinalRejectedOnLiveCall ==
    /\ last.op = "final" /\ last.err = "unauthorized-source"
    /\ \E c \in DOMAIN activeCalls :
          /\ activeCalls[c].Status = "RETURNED_FROM_S3"
          /\ dids[activeCalls[c].AssignedDID].InUse
          /\ didToCall[activeCalls[c].AssignedDID] = c

-----------------------------------------------------------------------------
(* Properties of concurrent leg-1 handlers (SpecAcquire) *)

\* the handlers that have returned
Returned == {h \in Handlers : pc[h] = "done"}

\* the handlers that returned after reaching the acquire: both peers selected
Acquirers == {h \in Returned : hsel[h].inter # None}

\* the handlers that returned success
Succeeded == {h \in Returned : hsel[h].err = ""}

\* the free DIDs the handlers started on: under SpecAcquire the pool starts
\* all free and no row is added, removed or released
FreeAtStart == Cardinality(DOMAIN dids)

Min(x, y) == IF x <= y THEN x ELSE y

-----------------------------------------------------------------------------
(* Properties of legs 3 and 5, hangup and the sweep *)

\* C11: a leg 3 for a DID whose index entry leads to a record, from a source
\* that passes the check of the stored intermediate peer, succeeds whatever
\* ani2 is, sets that record to step S3_TO_S2 and status RETURNED_FROM_S3,
\* changes nothing else of the ledger, and answers with the endpoint of the
\* stored final peer and the original ANI and DNIS of the record.
ReturnRestoresOriginals ==
    [][last'.op = "return" =>
        \A a \in LegNumbers, d \in DIDNumbers, p \in ClaimedNames, ip \in SourceIPs :
          (/\ d \in DOMAIN didToCall /\ didToCall[d] \in DOMAIN activeCalls
           /\ GetProvider(activeCalls[didToCall[d]].IntermediateProvider)
           /\ verifyProviderIP(activeCalls[didToCall[d]].IntermediateProvider, ip)
           /\ ProcessReturnCall(a, d, p, ip)) =>
              LET c == didToCall[d]
                  record == activeCalls[c]
              IN /\ last'.err = ""
                 /\ activeCalls' = [activeCalls EXCEPT ![c].CurrentStep = "S3_TO_S2",
                                                       ![c].Status = "RETURNED_FROM_S3"]
                 /\ last'.resp.Status = "success"
                 /\ last'.resp.NextHop = Endpoint(record.FinalProvider)
                 /\ last'.resp.ANIToSend = record.OriginalANI
                 /\ last'.resp.DNISToSend = record.OriginalDNIS]_vars

\* a leg 3 has just succeeded with an ani2 that is not the original DNIS
ReturnedWithOtherANI ==
    /\ last.op = "return" /\ last.err = ""
    /\ Len(verifications) = 1
    /\ verifications[1].Step = "S3_TO_S2"
    /\ verifications[1].Received[1] # verifications[1].Expected[1]
    /\ activeCalls[verifications[1].CallID].Status = "RETURNED_FROM_S3"

\* C12: a leg 5 that returns success takes one record out of the ledger, marked
\* COMPLETED; each of its two peers has one more call and no more failed calls
\* than before, and one active call less; afterwards the call-id index has no
\* record under its call-id and the DID index no entry under its DID.
FinalCompletesCall ==
    [][(last'.op = "final" /\ last'.err = "") =>
        \E e \in ended' :
          /\ ended' = {e}
          /\ e.CallID \in DOMAIN activeCalls
          /\ e = [activeCalls[e.CallID] EXCEPT !.Status = "COMPLETED",
                                               !.CurrentStep = "COMPLETED"]
          /\ e.IntermediateProvider # e.FinalProvider
          /\ \A n \in {e.IntermediateProvider, e.FinalProvider} :
                LET before == GetProviderStats(providerStats, n)
                    after == GetProviderStats(providerStats', n)
                IN /\ after.TotalCalls = before.TotalCalls + 1
                   /\ after.FailedCalls = before.FailedCalls
                   /\ after.ActiveCalls = before.ActiveCalls - 1
                   /\ after.LastCallTime = now
          /\ e.CallID \notin DOMAIN activeCalls'
          /\ e.AssignedDID \notin DOMAIN didToCall']_vars

\* a leg 5 has just completed a call
FinalSucceeded ==
    /\ last.op = "final" /\ last.err = ""
    /\ \E e \in ended :
          /\ e.Status = "COMPLETED"
          /\ e.CallID \notin DOMAIN activeCalls
          /\ providerStats[e.FinalProvider].TotalCalls > 0

\* the ledger, the pool and the counters are as they were and no row is written
NothingWritten ==
    /\ UNCHANGED <<dids, activeCalls, didToCall, providerStats>>
    /\ verifications' = <<>>
    /\ ended' = {}

\* C13: a leg 5 fails with call-not-found and writes nothing exactly when the
\* ledger has no record under its call-id and no record with its ani and dnis
\* as originals; a leg 3 for a DID that no record of the ledger holds fails
\* with call-not-found and writes nothing.
LostCallNotFound ==
    [][/\ last'.op = "final" =>
            \A c \in CallIDs, a \in ANIs, n \in LegNumbers, p \in ClaimedNames,
               ip \in SourceIPs :
                ProcessFinalCall(c, a, n, p, ip) =>
                    LET found == \/ c \in DOMAIN activeCalls
                                 \/ \E x \in DOMAIN activeCalls :
                                        /\ activeCalls[x].OriginalANI = a
                                        /\ activeCalls[x].OriginalDNIS = n
                    IN IF found THEN last'.err # "call-not-found"
                       ELSE last'.err = "call-not-found" /\ NothingWritten
       /\ last'.op = "return" =>
            \A a \in LegNumbers, d \in DIDNumbers, p \in ClaimedNames, ip \in SourceIPs :
                (Holders(d) = {} /\ ProcessReturnCall(a, d, p, ip)) =>
                    last'.err = "call-not-found" /\ NothingWritten]_vars

\* C14: a hangup for a call-id that is in the ledger takes the record out of
\* the ledger as ABANDONED, frees its DID and takes one active call off each
\* of its two peers.
HangupAbandonsCall ==
    [][last'.op = None =>
        \A c \in CallIDs :
          (c \in DOMAIN activeCalls /\ handleHangup(c)) =>
              LET record == activeCalls[c]
              IN /\ c \notin DOMAIN activeCalls'
                 /\ \E e \in ended' : e.CallID = c /\ e.Status = "ABANDONED"
                 /\ ~dids'[record.AssignedDID].InUse
                 /\ \A n \in {record.IntermediateProvider, record.FinalProvider} :
                       GetProviderStats(providerStats', n).ActiveCalls
                           = GetProviderStats(providerStats, n).ActiveCalls - 1]_vars

\* the records of S that have peer n as intermediate peer, and as final peer
UsesOf(S, n) ==
    Cardinality({c \in S : activeCalls[c].IntermediateProvider = n})
        + Cardinality({c \in S : activeCalls[c].FinalProvider = n})

\* C15: one run of the sweep abandons exactly the records whose start time is
\* more than 30 minutes old: each is marked ABANDONED and leaves both indices,
\* its DID is free afterwards, and every peer loses one active call and gains
\* one failed call for each abandoned record it serves; every younger record,
\* its DID and its index entry are as before.
SweepAbandonsStale ==
    [][(last'.op = None /\ Cleanup) =>
        LET stale == {c \in DOMAIN activeCalls :
                        (now - activeCalls[c].StartTime) * TickMinutes > StaleMinutes}
            young == (DOMAIN activeCalls) \ stale
        IN /\ {e.CallID : e \in ended'} = stale
           /\ \A e \in ended' : e.Status = "ABANDONED"
           /\ \A c \in stale :
                 /\ c \notin DOMAIN activeCalls'
                 /\ activeCalls[c].AssignedDID \notin DOMAIN didToCall'
                 /\ ~dids'[activeCalls[c].AssignedDID].InUse
           /\ \A n \in DOMAIN providers :
                 LET before == GetProviderStats(providerStats, n)
                     after == GetProviderStats(providerStats', n)
                 IN /\ after.ActiveCalls = before.ActiveCalls - UsesOf(stale, n)
                    /\ after.FailedCalls = before.FailedCalls + UsesOf(stale, n)
           /\ \A c \in young :
                 /\ c \in DOMAIN activeCalls'
                 /\ activeCalls'[c] = activeCalls[c]
                 /\ dids'[activeCalls[c].AssignedDID] = dids[activeCalls[c].AssignedDID]
                 /\ activeCalls[c].AssignedDID \in DOMAIN didToCall =>
                       /\ activeCalls[c].AssignedDID \in DOMAIN didToCall'
                       /\ didToCall'[activeCalls[c].AssignedDID]
                             = didToCall[activeCalls[c].AssignedDID]]_vars

(***************************************************************************)
(* SpecLive: the engine with time that advances and a sweep that keeps     *)
(* running.  Legs 1 arrive before the clock's bound and at most            *)
(* MaxTotalCalls of them, so that every record can grow stale and no       *)
(* counter of the sweep is cut short by a bound.                           *)
(***************************************************************************)
\* the legs 1 accepted so far: every one adds an active call to the final peer,
\* every ended record moves one from active to total
Arrived == LET stats == GetProviderStats(providerStats, "s4")
           IN stats.TotalCalls + stats.ActiveCalls

IncomingLive ==
    /\ now < MaxTime
    /\ Arrived < MaxTotalCalls
    /\ Incoming

NextLive ==
    \/ IncomingLive
    \/ Return
    \/ Final
    \/ Cleanup
    \/ Hangup
    \/ CliRelease
    \/ HealthMonitor
    \/ Tick

\* the cleanup goroutine's ticker fires for ever; so does the clock
SpecLive == Init /\ [][NextLive]_vars /\ WF_vars(Tick) /\ WF_vars(Cleanup)

\* C16: every DID that is in use is free again later, whatever legs arrive,
\* as long as time advances and the sweep keeps running.
InUseEventuallyFree ==
    \A d \in DIDNumbers : dids[d].InUse ~> ~dids[d].InUse

(***************************************************************************)
(* SpecSelect: SelectProvider as a function of the registry, the counters  *)
(* and its arguments.  The registry holds two intermediate peers whose     *)
(* settings and counters are drawn from bounded sets; the candidate lists  *)
(* are the slices GetProvidersByName returns for a peer name or the type.  *)
(***************************************************************************)
MaxWeight == 2
MaxPriority == 2
MaxChannelLimit == 1
MaxActive == 1
MaxSelects == 1

SelectNames == {"s3a", "s3b"}
Modes == {"round_robin", "weighted", "priority", "failover"}
NamePatterns == SelectNames \cup {"intermediate"}

\* the settings `provider add` accepts for an intermediate peer
ProviderSettings(name) ==
    {[Provider(name, "intermediate", name, "ip", maxch, prio, weight) EXCEPT !.Active = act] :
        maxch \in 0..MaxChannelLimit, prio \in 1..MaxPriority, weight \in 0..MaxWeight,
        act \in BOOLEAN}

\* the counters a peer can have: none yet, or an entry of providerStats
StatsSettings ==
    {[NewStats EXCEPT !.ActiveCalls = a, !.IsHealthy = h] : a \in 0..MaxActive, h \in BOOLEAN}

InitSelect ==
    /\ providers \in {f \in [SelectNames -> UNION {ProviderSettings(n) : n \in SelectNames}] :
                         \A n \in SelectNames : f[n].Name = n}
    /\ \E S \in SUBSET SelectNames : providerStats \in [S -> StatsSettings]
    /\ providerRoutes = EmptyMap
    /\ dids = EmptyMap
    /\ activeCalls = EmptyMap
    /\ didToCall = EmptyMap
    /\ roundRobinIndex = EmptyMap
    /\ verifications = <<>>
    /\ now = 0
    /\ last = NoOp
    /\ mu = 0
    /\ pc = EmptyMap
    /\ hsel = EmptyMap
    /\ ended = {}
    /\ sel = <<>>
    /\ out = NoSession
    /\ ret = NoRet
    /\ gw = NoGateway

\* one call of SelectProvider on a slice from the registry; sel keeps the
\* slice, the mode and what came back
SelectCall(namePattern, mode) ==
    /\ \E ps \in GetProvidersByName(namePattern) :
         LET outcomes == SelectProvider(providerStats, ps, mode, roundRobinIndex)
         IN IF outcomes = {}
            THEN /\ sel' = Append(sel, [providers |-> ps, mode |-> mode, name |-> None,
                                        err |-> "no healthy providers available"])
                 /\ UNCHANGED roundRobinIndex
            ELSE \E o \in outcomes :
                   /\ sel' = Append(sel, [providers |-> ps, mode |-> mode, name |-> o.name,
                                          err |-> ""])
                   /\ roundRobinIndex' = o.rr
    /\ UNCHANGED <<providers, providerRoutes, dids, activeCalls, didToCall, providerStats,
                   verifications, now, last, mu, pc, hsel, ended, out, ret, gw>>

Select(namePattern, mode) == Len(sel) < MaxSelects /\ SelectCall(namePattern, mode)

NextSelect == \E p \in NamePatterns, mode \in Modes : Select(p, mode)

SpecSelect == InitSelect /\ [][NextSelect]_vars

\* the candidates of a slice that are active, not flagged unhealthy and below
\* their channel limit when they have one
Satisfying(ps) ==
    {n \in Range(ps) :
        /\ providers[n].Active
        /\ GetProviderStats(providerStats, n).IsHealthy
        /\ providers[n].MaxChannels > 0 =>
              GetProviderStats(providerStats, n).ActiveCalls < providers[n].MaxChannels}

RECURSIVE CumulativeWeight(_, _)
CumulativeWeight(ps, j) ==
    IF j = 0 THEN 0 ELSE providers[ps[j]].Weight + CumulativeWeight(ps, j - 1)

\* C19: a weighted call over eligible peers of total weight T > 0 returns, for
\* each draw r in 0..T-1, the first peer in candidate order whose cumulative
\* weight exceeds r: exactly w_i of the T draws give peer i and a peer of
\* weight 0 is never returned; with T = 0 every eligible peer can be returned.
WeightedByCumulativeWeight ==
    \A i \in 1..Len(sel) :
        (sel[i].mode = "weighted" /\ sel[i].err = "") =>
            LET active == SelectSeq(sel[i].providers,
                                    LAMBDA n : n \in Satisfying(sel[i].providers))
                T == CumulativeWeight(active, Len(active))
                FirstOver(r) ==
                    active[CHOOSE j \in 1..Len(active) :
                              /\ CumulativeWeight(active, j) > r
                              /\ \A k \in 1..(j - 1) : CumulativeWeight(active, k) <= r]
                outcomes == {o.name : o \in SelectProvider(providerStats, sel[i].providers,
                                                            "weighted", roundRobinIndex)}
            IN /\ sel[i].name \in outcomes
               /\ IF T > 0
                  THEN /\ \A r \in 0..(T - 1) : WeightedWalk(active, r) = FirstOver(r)
                       /\ outcomes = {FirstOver(r) : r \in 0..(T - 1)}
                       /\ \A j \in 1..Len(active) :
                             Cardinality({r \in 0..(T - 1) : WeightedWalk(active, r) = active[j]})
                                 = providers[active[j]].Weight
                       /\ providers[sel[i].name].Weight > 0
                  ELSE outcomes = Range(active)

\* a weighted call has skipped an eligible peer of weight 0 at the head of
\* the slice and returned the second peer
WeightedSkippedZero ==
    \E i \in 1..Len(sel) :
        /\ sel[i].mode = "weighted" /\ sel[i].err = ""
        /\ Len(sel[i].providers) = 2
        /\ Satisfying(sel[i].providers) = Range(sel[i].providers)
        /\ providers[sel[i].providers[1]].Weight = 0
        /\ sel[i].name = sel[i].providers[2]
        /\ providers[sel[i].name].Weight = MaxWeight

\* peer names in the order of Go's string comparison
NameOrder == <<"s3a", "s3b", "s3c">>
NameRank(n) == CHOOSE i \in 1..Len(NameOrder) : NameOrder[i] = n

\* C20: a priority call returns an eligible candidate of maximal priority,
\* and among several of maximal priority the one that is first by name,
\* whatever the order of the candidate list.
PriorityTieByName ==
    \A i \in 1..Len(sel) :
        (sel[i].mode = "priority" /\ sel[i].err = "") =>
            LET ok == Satisfying(sel[i].providers)
                top == {n \in ok : \A m \in ok : providers[m].Priority <= providers[n].Priority}
            IN /\ sel[i].name \in top
               /\ \A m \in top : NameRank(sel[i].name) <= NameRank(m)

(***************************************************************************)
(* SpecRoundRobin: leg 1 after leg 1 selects from a pool of three          *)
(* intermediate peers addressed by type, in round_robin mode.  All three   *)
(* stay eligible; the registry lists them in the order its map iteration   *)
(* happens to visit them.                                                  *)
(***************************************************************************)
MaxRounds == 2

RoundRobinPool ==
    LET ps == { Provider("s3a", "intermediate", "h3a", "ip", 0, 1, 1),
                Provider("s3b", "intermediate", "h3b", "ip", 0, 1, 1),
                Provider("s3c", "intermediate", "h3c", "ip", 0, 1, 1) }
    IN [n \in {p.Name : p \in ps} |-> CHOOSE p \in ps : p.Name = n]

InitRoundRobin ==
    /\ providers = RoundRobinPool
    /\ providerRoutes = Put(EmptyMap, "r", [SeedRoute("round_robin") EXCEPT
                                              !.IntermediateProvider = "intermediate"])
    /\ providerStats = EmptyMap
    /\ dids = EmptyMap
    /\ activeCalls = EmptyMap
    /\ didToCall = EmptyMap
    /\ roundRobinIndex = EmptyMap
    /\ verifications = <<>>
    /\ now = 0
    /\ last = NoOp
    /\ mu = 0
    /\ pc = EmptyMap
    /\ hsel = EmptyMap
    /\ ended = {}
    /\ sel = <<>>
    /\ out = NoSession
    /\ ret = NoRet
    /\ gw = NoGateway

SelectIntermediate ==
    /\ Len(sel) < Cardinality(DOMAIN providers) * MaxRounds
    /\ \E r \in DOMAIN providerRoutes :
          SelectCall(providerRoutes[r].IntermediateProvider, providerRoutes[r].LoadBalanceMode)

NextRoundRobin == SelectIntermediate

SpecRoundRobin == InitRoundRobin /\ [][NextRoundRobin]_vars

\* the calls among the first m of sel that returned peer n
TimesReturned(m, n) == Cardinality({i \in 1..m : sel[i].name = n})

\* C18: after k*n round_robin calls over the same k eligible peers each peer
\* has been returned exactly n times, in whatever order each call was given
\* the candidates.
RoundRobinFair ==
    LET k == Cardinality(DOMAIN providers)
    IN \A n \in 1..MaxRounds :
         Len(sel) >= k * n => \A p \in DOMAIN providers : TimesReturned(k * n, p) = n

(***************************************************************************)
(* Properties of failover, the health flag and the health monitor          *)
(***************************************************************************)
\* C21: a failover call over candidates that are active and below their
\* channel limit returns the one of highest priority whose health flag is
\* true, and when none of them has a true health flag it returns the one of
\* highest priority overall instead of failing.
FailoverFallsBack ==
    \A i \in 1..Len(sel) :
        sel[i].mode = "failover" =>
            LET cands == {n \in Range(sel[i].providers) :
                            /\ providers[n].Active
                            /\ providers[n].MaxChannels > 0 =>
                                  GetProviderStats(providerStats, n).ActiveCalls
                                      < providers[n].MaxChannels}
                healthy == {n \in cands : GetProviderStats(providerStats, n).IsHealthy}
                pool == IF healthy # {} THEN healthy ELSE cands
            IN cands # {} =>
                  /\ sel[i].err = ""
                  /\ sel[i].name \in pool
                  /\ \A m \in pool : providers[m].Priority <= providers[sel[i].name].Priority

(***************************************************************************)
(* SpecHealth: the counters of one intermediate peer under a stream of     *)
(* completed and failed calls, the health monitor, the clock, and one call *)
(* of SelectProvider at any point of it.                                   *)
(***************************************************************************)
MaxStatCalls == 12

HealthNames == {"s3a"}

InitHealth ==
    /\ providers = SeedProviders
    /\ providerRoutes = EmptyMap
    /\ providerStats = EmptyMap
    /\ dids = EmptyMap
    /\ activeCalls = EmptyMap
    /\ didToCall = EmptyMap
    /\ roundRobinIndex = EmptyMap
    /\ verifications = <<>>
    /\ now = 0
    /\ last = NoOp
    /\ mu = 0
    /\ pc = EmptyMap
    /\ hsel = EmptyMap
    /\ ended = {}
    /\ sel = <<>>
    /\ out = NoSession
    /\ ret = NoRet
    /\ gw = NoGateway

\* one call of UpdateStats, as leg 5 (succeeded) and the sweep (failed) make it
UpdateStatsCall(name, callSucceeded) ==
    /\ GetProviderStats(providerStats, name).TotalCalls < MaxStatCalls
    /\ providerStats' = UpdateStats(providerStats, name, callSucceeded, now)
    /\ UNCHANGED <<providers, providerRoutes, dids, activeCalls, didToCall, roundRobinIndex,
                   verifications, now, last, mu, pc, hsel, ended, sel, out, ret, gw>>

StatsUpdate == \E n \in HealthNames, ok \in BOOLEAN : UpdateStatsCall(n, ok)

NextHealth ==
    \/ StatsUpdate
    \/ HealthMonitor
    \/ Tick
    \/ NextSelect

SpecHealth == InitHealth /\ [][NextHealth]_vars

\* the health monitor's ticker fires for ever; so does the clock
SpecHealthLive == SpecHealth /\ WF_vars(HealthMonitor) /\ WF_vars(Tick)

\* success-rate < 50 with the counters t (total) and f (failed)
LowRate(t, f) == (t - f) * 100 < 50 * t

\* C22: a call of UpdateStats that leaves a peer with more than 10 total
\* calls and a success rate below 50 leaves it flagged unhealthy; a peer is
\* never flagged with 10 total calls or fewer; a flagged peer stays flagged
\* until the health monitor resets it, and no call of Select returns a
\* flagged peer.
UnhealthyAboveTenCalls ==
    [][/\ \A n \in DOMAIN providerStats' :
            LET before == GetProviderStats(providerStats, n)
                after == providerStats'[n]
            IN /\ (after.TotalCalls = before.TotalCalls + 1
                      /\ after.TotalCalls > 10
                      /\ LowRate(after.TotalCalls, after.FailedCalls)) => ~after.IsHealthy
               /\ (before.IsHealthy /\ ~after.IsHealthy) => after.TotalCalls > 10
               /\ (~before.IsHealthy /\ after.IsHealthy) =>
                      /\ HealthMonitor
                      /\ after.TotalCalls = 0
       /\ Len(sel') > Len(sel) =>
            LET call == sel'[Len(sel')]
            IN call.err = "" => GetProviderStats(providerStats, call.name).IsHealthy]_vars

\* the peer was flagged by its eleventh call and a call of Select that was
\* given it first of two peers of equal priority has returned the other
FlaggedAndPassedOver ==
    /\ "s3a" \in DOMAIN providerStats
    /\ ~providerStats["s3a"].IsHealthy
    /\ providerStats["s3a"].TotalCalls = 11
    /\ Len(sel) = 1
    /\ sel[1].providers = <<"s3a", "s3b">>
    /\ sel[1].mode = "priority"
    /\ sel[1].name = "s3b"

\* a call of Select on the peer alone returns it
CanBeSelected(n) ==
    \E o \in SelectProvider(providerStats, <<n>>, "round_robin", EmptyMap) : o.name = n

\* the peer is flagged and its last call is more than 5 minutes old
FlaggedAndQuiet(n) ==
    /\ n \in DOMAIN providerStats
    /\ ~providerStats[n].IsHealthy
    /\ (now - providerStats[n].LastCallTime) * TickMinutes > 5

\* the peer has been reset, or a new call has refreshed its last-call time
ResetOrRefreshed(n) ==
    /\ n \in DOMAIN providerStats
    /\ \/ /\ providerStats[n].IsHealthy
          /\ providerStats[n].TotalCalls = 0
          /\ providerStats[n].FailedCalls = 0
          /\ CanBeSelected(n)
       \/ (now - providerStats[n].LastCallTime) * TickMinutes <= 5

\* C23: a flagged peer whose last call is more than 5 minutes old is
\* eventually healthy again with its total and failed counters at zero, and
\* eligible for Select, unless a new call refreshes its last-call time first;
\* a run of the monitor changes nothing for a peer that is healthy or whose
\* last call is within 5 minutes.
MonitorRecovers ==
    /\ \A n \in HealthNames : FlaggedAndQuiet(n) ~> ResetOrRefreshed(n)
    /\ [][HealthMonitor =>
            \A n \in DOMAIN providerStats :
                (\/ providerStats[n].IsHealthy
                 \/ (now - providerStats[n].LastCallTime) * TickMinutes <= 5) =>
                    providerStats'[n] = providerStats[n]]_vars

\* the monitor has reset the counters of a peer that had been flagged
MonitorHasReset ==
    /\ "s3a" \in DOMAIN providerStats
    /\ providerStats["s3a"].IsHealthy
    /\ providerStats["s3a"].TotalCalls = 0
    /\ providerStats["s3a"].LastCallTime # ZeroTime
    /\ now > providerStats["s3a"].LastCallTime

(***************************************************************************)
(* Properties of the gateway sessions                                      *)
(***************************************************************************)
\* C29: a session whose engine operation failed ends on the failure token
\* 200 result=0, and a session ends on the success token 200 result=1 only
\* when its engine operation succeeded.
StatusLineTellsFailure ==
    last.op \in {"incoming", "return", "final"} =>
        /\ last.err # "" => out.status = "200 result=0"
        /\ out.status = "200 result=1" => last.err = ""

\* C30: a leg 1 or leg 3 that succeeded has set the five variables
\* ROUTER_STATUS=success, DID_ASSIGNED, NEXT_HOP, ANI_TO_SEND and DNIS_TO_SEND
\* from the engine's response; one that failed has set ROUTER_STATUS=failed
\* and ROUTER_ERROR and no routing variable.
RoutingVariablesSet ==
    last.op \in {"incoming", "return"} =>
        IF last.err = ""
        THEN out.vars = [ROUTER_STATUS |-> "success",
                         DID_ASSIGNED |-> last.resp.DIDAssigned,
                         NEXT_HOP |-> last.resp.NextHop,
                         ANI_TO_SEND |-> last.resp.ANIToSend,
                         DNIS_TO_SEND |-> last.resp.DNISToSend]
        ELSE out.vars = [ROUTER_STATUS |-> "failed", ROUTER_ERROR |-> last.err]

(***************************************************************************)
(* SpecRoute: GetRouteForInbound as a function of the route table.  The    *)
(* table holds up to two routes whose inbound peer, active flag and        *)
(* priority are drawn from bounded sets.                                   *)
(***************************************************************************)
MaxRoutePriority == 1

\* route names in the order of Go's string comparison
RouteOrder == <<"r1", "r2">>
RouteNames == {RouteOrder[i] : i \in 1..Len(RouteOrder)}

\* the rows `route add` accepts
RouteSettings(name) ==
    {[SeedRoute("weighted") EXCEPT !.Name = name, !.InboundProvider = i, !.Priority = prio,
                                   !.Active = act] :
        i \in InboundNames, prio \in -MaxRoutePriority..MaxRoutePriority, act \in BOOLEAN}

InitRoute ==
    /\ providers = SeedProviders
    /\ \E S \in SUBSET RouteNames :
          providerRoutes \in {f \in [S -> UNION {RouteSettings(n) : n \in S}] :
                                \A n \in S : f[n].Name = n}
    /\ providerStats = EmptyMap
    /\ dids = EmptyMap
    /\ activeCalls = EmptyMap
    /\ didToCall = EmptyMap
    /\ roundRobinIndex = EmptyMap
    /\ verifications = <<>>
    /\ now = 0
    /\ last = NoOp
    /\ mu = 0
    /\ pc = EmptyMap
    /\ hsel = EmptyMap
    /\ ended = {}
    /\ sel = <<>>
    /\ out = NoSession
    /\ ret = NoRet
    /\ gw = NoGateway

\* one call of GetRouteForInbound
ResolveRoute(inboundProvider) ==
    /\ LET routes == GetRouteForInbound(inboundProvider)
       IN IF routes = {}
          THEN ret' = Ret("GetRouteForInbound", inboundProvider, None, "no active route found",
                           providerRoutes)
          ELSE \E r \in routes : ret' = Ret("GetRouteForInbound", inboundProvider, r, "",
                                               providerRoutes)
    /\ UNCHANGED <<providers, providerRoutes, dids, activeCalls, didToCall, providerStats,
                   roundRobinIndex, verifications, now, last, mu, pc, hsel, ended, sel, out, gw>>

NextRoute == \E i \in InboundNames : ResolveRoute(i)

SpecRoute == InitRoute /\ [][NextRoute]_vars

RouteRank(n) == CHOOSE i \in 1..Len(RouteOrder) : RouteOrder[i] = n

\* C24: route resolution for an inbound peer returns the active route of
\* highest priority among that peer's routes, the first by name among several
\* of that priority, and fails with no-route only when the peer has no active
\* route, whatever the priorities.
RouteByPriorityThenName ==
    ret.op = "GetRouteForInbound" =>
        LET act == {n \in DOMAIN providerRoutes :
                        /\ providerRoutes[n].InboundProvider = ret.arg
                        /\ providerRoutes[n].Active}
            top == {n \in act : \A m \in act :
                        providerRoutes[m].Priority <= providerRoutes[n].Priority}
        IN /\ ret.err # "" <=> act = {}
           /\ ret.err = "" =>
                 /\ ret.val \in top
                 /\ \A m \in top : RouteRank(ret.val) <= RouteRank(m)

-----------------------------------------------------------------------------
(* The DID pool on its own: acquires and releases against any table the     *)
(* `did add` command can have loaded.  A free row has no destination: the   *)
(* INSERT leaves the column NULL and every statement that clears in_use     *)
(* clears it too.                                                           *)

PoolOwners == {"s3a", "s3b"}

\* the rows `did add` inserts
PoolRows == {[ProviderName |-> o, InUse |-> FALSE, Destination |-> None] : o \in PoolOwners}

InitPool ==
    /\ providers = SeedProviders
    /\ providerRoutes = EmptyMap
    /\ \E S \in SUBSET DIDNumbers : dids \in [S -> PoolRows]
    /\ providerStats = EmptyMap
    /\ activeCalls = EmptyMap
    /\ didToCall = EmptyMap
    /\ roundRobinIndex = EmptyMap
    /\ verifications = <<>>
    /\ now = 0
    /\ last = NoOp
    /\ mu = 0
    /\ pc = EmptyMap
    /\ hsel = EmptyMap
    /\ ended = {}
    /\ sel = <<>>
    /\ out = NoSession
    /\ ret = NoRet
    /\ gw = NoGateway

\* getAvailableDID then markDIDInUse, as leg 1 runs them under r.mu; selOk and
\* markOk are FALSE when the statement fails
AcquireDID(providerName, destination) ==
    /\ \E selOk, markOk \in BOOLEAN :
          LET free == getAvailableDID(dids, providerName)
          IN IF ~selOk \/ free = {}
             THEN /\ markOk
                  /\ ret' = Ret("Acquire", providerName, None, "no-did", dids)
                  /\ dids' = dids
             ELSE \E did \in free :
                    IF ~markOk
                    THEN /\ ret' = Ret("Acquire", providerName, None, "storage-error", dids)
                         /\ dids' = dids
                    ELSE /\ ret' = Ret("Acquire", providerName, did, "", dids)
                         /\ dids' = markDIDInUse(dids, did, destination)
    /\ UNCHANGED <<providers, providerRoutes, activeCalls, didToCall, providerStats,
                   roundRobinIndex, verifications, now, last, mu, pc, hsel, ended, sel, out, gw>>

\* releaseDID; ok is FALSE when the UPDATE fails
ReleaseDID(number) ==
    /\ \E ok \in BOOLEAN :
          /\ dids' = releaseDID(dids, number, ok)
          /\ ret' = Ret("Release", number, None, IF ok THEN "" ELSE "storage-error", dids)
    /\ UNCHANGED <<providers, providerRoutes, activeCalls, didToCall, providerStats,
                   roundRobinIndex, verifications, now, last, mu, pc, hsel, ended, sel, out, gw>>

PoolAcquire == \E o \in PoolOwners, n \in DNISs : AcquireDID(o, n)

PoolRelease == \E d \in DIDNumbers : ReleaseDID(d)

NextPool == PoolAcquire \/ PoolRelease

SpecPool == InitPool /\ [][NextPool]_vars

FreeDIDs(pool) == {d \in DOMAIN pool : ~pool[d].InUse}

\* C25: Acquire for an owner returns a DID owned by that peer whenever that
\* peer has a free DID, another owner's free DID only when it has none, never
\* a DID that is in use, and fails with no-did only when the whole pool has
\* no free DID.
AcquireOwnFirst ==
    ret.op = "Acquire" =>
        LET free == FreeDIDs(ret.pre)
            own == {d \in free : ret.pre[d].ProviderName = ret.arg}
        IN /\ ret.err = "" => ret.val \in free
           /\ (ret.err = "" /\ own # {}) => ret.val \in own
           /\ own # {} => ret.err # "no-did"
           /\ ret.err = "no-did" => free = {}

\* C26: an Acquire followed at once by a Release of the number it returned
\* leaves every row of the pool with the in-use flag and the destination it
\* had before the Acquire, and a Release of a DID that is already free
\* changes nothing.
AcquireReleaseRoundTrip ==
    [][/\ (/\ ret.op = "Acquire" /\ ret.err = ""
           /\ ret'.op = "Release" /\ ret'.err = "" /\ ret'.arg = ret.val) => dids' = ret.pre
       /\ (ret'.op = "Release" /\ ret'.arg \in FreeDIDs(dids)) => dids' = dids]_vars

\* the only DID of the pool was found in use with its destination by a
\* Release and is free again
AcquiredThenReleased ==
    /\ ret.op = "Release" /\ ret.err = "" /\ ret.arg = "d1"
    /\ DOMAIN dids = {"d1"}
    /\ ret.pre["d1"].InUse /\ ret.pre["d1"].Destination = "n1"
    /\ ~dids["d1"].InUse /\ dids["d1"].Destination = None

-----------------------------------------------------------------------------
(* The provider registry on its own: `provider add`, `provider delete` and  *)
(* the lookup by name or type, against the route table as it stands.        *)

\* the peers `provider add` is called with: the seeded ones, s3a under other
\* settings, a peer named like a type and one without a host
RegistryPeers ==
    {SeedProviders[n] : n \in DOMAIN SeedProviders}
    \cup { Provider("s3a",   "final", "h9", "ip", 0, 1, 1),
           Provider("final", "final", "h5", "ip", 0, 1, 1),
           Provider("s9",    "final", "",   "ip", 0, 1, 1) }

RegistryNames == {p.Name : p \in RegistryPeers}

LookupTokens == {"s3a", "intermediate", "final", "outbound"}

\* the rows of provider_routes that name the peer in one of the three columns
RoutesUsing(name) ==
    {r \in DOMAIN providerRoutes :
        \/ providerRoutes[r].InboundProvider = name
        \/ providerRoutes[r].IntermediateProvider = name
        \/ providerRoutes[r].FinalProvider = name}

\* the registry holds seeded peers; the route r, when there, was added while
\* its three peers were registered
InitRegistry ==
    /\ \E S \in SUBSET (DOMAIN SeedProviders) : providers = [n \in S |-> SeedProviders[n]]
    /\ \/ providerRoutes = EmptyMap
       \/ /\ {"s1", "s3a", "s4"} \subseteq DOMAIN providers
          /\ providerRoutes = [n \in {"r"} |-> SeedRoute("weighted")]
    /\ dids = EmptyMap
    /\ providerStats = EmptyMap
    /\ activeCalls = EmptyMap
    /\ didToCall = EmptyMap
    /\ roundRobinIndex = EmptyMap
    /\ verifications = <<>>
    /\ now = 0
    /\ last = NoOp
    /\ mu = 0
    /\ pc = EmptyMap
    /\ hsel = EmptyMap
    /\ ended = {}
    /\ sel = <<>>
    /\ out = NoSession
    /\ ret = NoRet
    /\ gw = NoGateway

\* execOk: the INSERT ... ON DUPLICATE KEY UPDATE succeeds; araOk: CreateEndpoint
\* succeeds.  p.AuthType is what the username and password make it.
AddProvider(p) ==
    /\ \E execOk, araOk \in BOOLEAN :
          IF p.Name = "" \/ p.Host = ""
          THEN /\ execOk /\ araOk
               /\ providers' = providers
               /\ ret' = Ret("AddProvider", p, None, "provider name and host are required",
                             providers)
          ELSE IF ~execOk
          THEN /\ araOk
               /\ providers' = providers
               /\ ret' = Ret("AddProvider", p, None, "storage-error", providers)
          ELSE /\ providers' = Put(providers, p.Name, p)
               /\ ret' = Ret("AddProvider", p, None,
                             IF araOk THEN "" ELSE "failed to create ARA endpoint", providers)
    /\ UNCHANGED <<providerRoutes, dids, activeCalls, didToCall, providerStats,
                   roundRobinIndex, verifications, now, last, mu, pc, hsel, ended, sel, out, gw>>

\* countOk: the SELECT COUNT(*) succeeds; its error is not looked at and count
\* stays 0 when it fails.  A failure of DeleteEndpoint is only logged.
\* delOk: the DELETE succeeds.
DeleteProvider(name) ==
    /\ \E countOk, delOk \in BOOLEAN :
          LET count == IF countOk THEN Cardinality(RoutesUsing(name)) ELSE 0
          IN IF count > 0
             THEN /\ delOk
                  /\ providers' = providers
                  /\ ret' = Ret("DeleteProvider", name, None, "provider is used in routes",
                                providers)
             ELSE IF ~delOk
             THEN /\ providers' = providers
                  /\ ret' = Ret("DeleteProvider", name, None, "storage-error", providers)
             ELSE /\ providers' = Del(providers, name)
                  /\ ret' = Ret("DeleteProvider", name, None, "", providers)
    /\ UNCHANGED <<providerRoutes, dids, activeCalls, didToCall, providerStats,
                   roundRobinIndex, verifications, now, last, mu, pc, hsel, ended, sel, out, gw>>

\* one call of GetProvidersByName
LookupProviders(namePattern) ==
    /\ LET found == GetProvidersByName(namePattern)
       IN IF found = {}
          THEN ret' = Ret("GetProvidersByName", namePattern, <<>>, "no providers found matching",
                         providers)
          ELSE \E ps \in found : ret' = Ret("GetProvidersByName", namePattern, ps, "", providers)
    /\ UNCHANGED <<providers, providerRoutes, dids, activeCalls, didToCall, providerStats,
                   roundRobinIndex, verifications, now, last, mu, pc, hsel, ended, sel, out, gw>>

RegistryAdd == \E p \in RegistryPeers : AddProvider(p)

RegistryDelete == \E n \in RegistryNames : DeleteProvider(n)

RegistryLookup == \E t \in LookupTokens : LookupProviders(t)

NextRegistry == RegistryAdd \/ RegistryDelete \/ RegistryLookup

SpecRegistry == InitRegistry /\ [][NextRegistry]_vars

\* C27: Delete(name) fails and leaves the registry as it was when a route
\* names the peer as inbound, intermediate or final; otherwise an Add of a
\* new peer followed by the Delete of its name gives back the registry as it
\* was before the Add; an Add of a registered name replaces that peer and
\* adds no second entry.
DeleteGuardedByRoutes ==
    [][/\ (ret'.op = "DeleteProvider" /\ RoutesUsing(ret'.arg) # {}) =>
              (ret'.err # "" /\ providers' = providers)
       /\ (/\ ret.op = "AddProvider" /\ ret.err = "" /\ ret.arg.Name \notin DOMAIN ret.pre
           /\ ret'.op = "DeleteProvider" /\ ret'.err = "" /\ ret'.arg = ret.arg.Name
           /\ RoutesUsing(ret'.arg) = {}) => providers' = ret.pre
       /\ (ret'.op = "AddProvider" /\ ret'.err = "") =>
              /\ DOMAIN providers' = DOMAIN providers \cup {ret'.arg.Name}
              /\ providers'[ret'.arg.Name] = ret'.arg
              /\ \A n \in DOMAIN providers \ {ret'.arg.Name} : providers'[n] = providers[n]]_vars

\* C28: the lookup by a token returns exactly the one peer of that name
\* when there is one, otherwise exactly the peers whose type is the token,
\* and fails when there is none of those.
LookupByNameThenType ==
    ret.op = "GetProvidersByName" =>
        LET byType == {n \in DOMAIN ret.pre : ret.pre[n].Type = ret.arg}
        IN IF ret.arg \in DOMAIN ret.pre
           THEN ret.err = "" /\ ret.val = <<ret.arg>>
           ELSE /\ ret.err # "" <=> byType = {}
                /\ ret.err = "" => Range(ret.val) = byType /\ Len(ret.val) = Cardinality(byType)

\* the token names a peer and is the type of another one: the named peer
\* alone came back
LookedUpNameThatIsAType ==
    /\ ret.op = "GetProvidersByName" /\ ret.arg = "final" /\ ret.err = ""
    /\ "final" \in DOMAIN ret.pre
    /\ "s4" \in DOMAIN ret.pre /\ ret.pre["s4"].Type = "final"
    /\ ret.val = <<"final">>

-----------------------------------------------------------------------------
(* Properties of storage errors and of the ledger's bookkeeping *)

AcquireStatements == {"dids.select", "dids.mark"}

\* C31: a leg whose INSERT or UPDATE of the call record, or INSERT of the
\* verification row, fails does not fail for it, and the ledger is left as
\* by the same leg without the failure; a leg 1 whose SELECT or UPDATE of
\* the DID fails returns an error and creates no record.
StorageErrorsOnlyFatalForAcquire ==
    [][last'.failed # {} =>
          IF last'.failed \cap AcquireStatements # {}
          THEN /\ last'.op = "incoming" /\ last'.err # ""
               /\ activeCalls' = activeCalls /\ didToCall' = didToCall
          ELSE CASE last'.err = "unauthorized-source" ->
                      activeCalls' = activeCalls /\ didToCall' = didToCall
                 [] last'.err = "" /\ last'.op = "incoming" ->
                      LET did == last'.resp.DIDAssigned
                      IN /\ did \in DOMAIN didToCall'
                         /\ didToCall' = Put(didToCall, did, didToCall'[did])
                         /\ didToCall'[did] \in DOMAIN activeCalls'
                         /\ activeCalls' = Put(activeCalls, didToCall'[did],
                                               activeCalls'[didToCall'[did]])
                         /\ activeCalls'[didToCall'[did]].AssignedDID = did
                         /\ activeCalls'[didToCall'[did]].Status = "ACTIVE"
                 [] last'.err = "" /\ last'.op = "return" ->
                      /\ didToCall' = didToCall
                      /\ \E c \in DOMAIN activeCalls :
                            activeCalls' = [activeCalls EXCEPT ![c].Status = "RETURNED_FROM_S3",
                                                               ![c].CurrentStep = "S3_TO_S2"]
                 [] last'.err = "" /\ last'.op = "final" ->
                      \E c \in DOMAIN activeCalls :
                          /\ activeCalls' = Del(activeCalls, c)
                          /\ didToCall' = Del(didToCall, activeCalls[c].AssignedDID)
                 [] OTHER -> FALSE]_vars

\* leg 1 succeeded although neither the call record nor the verification row
\* could be stored
IncomingAcceptedUnstored ==
    /\ last.op = "incoming" /\ last.err = ""
    /\ last.failed = {"call_records", "call_verifications"}
    /\ \E c \in DOMAIN activeCalls : activeCalls[c].AssignedDID = last.resp.DIDAssigned

-----------------------------------------------------------------------------
(* SpecSession: one gateway session at a time, command by command.  gw     *)
(* holds the session in progress: where it is, its headers, the lines it   *)
(* has still to write and, in `lines`, what it has done so far in order:   *)
(* the commands it wrote, the replies it read and its call of the engine.  *)

MaxSessions == 2

\* agi_request as processRequest tells them apart; "status" is a request it
\* does not know
Requests == {"", "processIncoming", "processReturn", "processFinal", "hangup", "status"}

Headers(uniqueid, callerid, extension, provider) ==
    [agi_uniqueid |-> uniqueid, agi_callerid |-> callerid, agi_extension |-> extension,
     provider |-> provider]

\* the headers a request of each kind comes with
HeadersFor(request) ==
    CASE request = "processIncoming" ->
            {Headers(c, a, n, i) : c \in CallIDs, a \in ANIs, n \in DNISs, i \in InboundNames}
      [] request = "processReturn" ->
            {Headers(None, a, d, p) : a \in LegNumbers, d \in DIDNumbers, p \in ClaimedNames}
      [] request = "processFinal" ->
            {Headers(c, a, n, p) : c \in CallIDs, a \in ANIs, n \in LegNumbers,
                                   p \in ClaimedNames}
      [] OTHER -> {Headers(c, None, None, None) : c \in CallIDs}

\* what getVariable can return: the value in the reply, or "" when the
\* variable is not set or the exchange fails
SourceIPValues == SourceIPs \cup {<<"">>}

GetVariable(name) == <<"GET VARIABLE", name>>
Reply(value) == <<"reply", value>>
Engine(op) == <<"engine", op>>
SetVariable(name, value) == <<"SET VARIABLE", name, value>>
Status(line) == <<"status", line>>

\* the GET VARIABLE commands a handler starts with
VariablesRead(request) ==
    IF request \in {"processReturn", "processFinal"} THEN <<"SOURCE_IP">> ELSE <<>>

\* requests whose handler calls the engine
EngineRequests == {"processIncoming", "processReturn", "processFinal"}

\* a handler that sends its status line before the channel variables
LinesToWriteStatusFirst(request, err, resp) ==
    CASE request = "processIncoming" /\ err = "" ->
            <<Status(AGI_SUCCESS), SetVariable("ROUTER_STATUS", "success"),
              SetVariable("DID_ASSIGNED", resp.DIDAssigned),
              SetVariable("NEXT_HOP", resp.NextHop),
              SetVariable("ANI_TO_SEND", resp.ANIToSend),
              SetVariable("DNIS_TO_SEND", resp.DNISToSend)>>
      [] request = "processReturn" /\ err = "" ->
            <<Status(AGI_SUCCESS), SetVariable("ROUTER_STATUS", "success"),
              SetVariable("NEXT_HOP", resp.NextHop),
              SetVariable("ANI_TO_SEND", resp.ANIToSend),
              SetVariable("DNIS_TO_SEND", resp.DNISToSend)>>
      [] request \in {"processIncoming", "processReturn"} /\ err # "" ->
            <<Status(AGI_SUCCESS), SetVariable("ROUTER_STATUS", "failed"),
              SetVariable("ROUTER_ERROR", err)>>
      [] request \in {"processFinal", "hangup"} -> <<Status(AGI_SUCCESS)>>
      [] OTHER -> <<Status(AGI_FAILURE)>>

\* the lines a handler writes once the engine has returned (err, resp), or at
\* once when it does not call the engine
LinesToWrite(request, err, resp) ==
    CASE request = "processIncoming" /\ err = "" ->
            <<SetVariable("ROUTER_STATUS", "success"),
              SetVariable("DID_ASSIGNED", resp.DIDAssigned),
              SetVariable("NEXT_HOP", resp.NextHop),
              SetVariable("ANI_TO_SEND", resp.ANIToSend),
              SetVariable("DNIS_TO_SEND", resp.DNISToSend), Status(AGI_SUCCESS)>>
      [] request = "processReturn" /\ err = "" ->
            <<SetVariable("ROUTER_STATUS", "success"),
              SetVariable("NEXT_HOP", resp.NextHop),
              SetVariable("ANI_TO_SEND", resp.ANIToSend),
              SetVariable("DNIS_TO_SEND", resp.DNISToSend), Status(AGI_SUCCESS)>>
      [] request \in {"processIncoming", "processReturn"} /\ err # "" ->
            <<SetVariable("ROUTER_STATUS", "failed"), SetVariable("ROUTER_ERROR", err),
              Status(AGI_SUCCESS)>>
      [] request \in {"processFinal", "hangup"} -> <<Status(AGI_SUCCESS)>>
      [] OTHER -> <<Status(AGI_FAILURE)>>

AGISession(pos, request, headers, sourceIP, todo, lines) ==
    [pc |-> pos, request |-> request, headers |-> headers, sourceIP |-> sourceIP,
     todo |-> todo, lines |-> lines]

NoAGISession == AGISession("none", "", Headers(None, None, None, None), <<"">>, <<>>, <<>>)

InitSession ==
    /\ providers = SeedProviders
    /\ providerRoutes = Put(EmptyMap, "r", SeedRoute("weighted"))
    /\ dids = SeedDIDs
    /\ activeCalls = EmptyMap
    /\ didToCall = EmptyMap
    /\ providerStats = EmptyMap
    /\ roundRobinIndex = EmptyMap
    /\ verifications = <<>>
    /\ now = 0
    /\ last = NoOp
    /\ mu = 0
    /\ pc = EmptyMap
    /\ hsel = EmptyMap
    /\ ended = {}
    /\ sel = <<>>
    /\ out = NoSession
    /\ ret = NoRet
    /\ gw = [started |-> 0, session |-> NoAGISession]

\* a step of the session that does not call the engine
SessionStep(session) ==
    /\ gw' = [gw EXCEPT !.session = session]
    /\ last' = NoOp
    /\ verifications' = <<>>
    /\ ended' = {}
    /\ UNCHANGED <<providers, providerRoutes, dids, activeCalls, didToCall, providerStats,
                   roundRobinIndex, now, mu, pc, hsel, sel, out, ret>>

\* handleConnection up to readHeaders; ok is FALSE when reading fails, and the
\* session is closed without a line written
readHeaders ==
    /\ gw.session.pc \in {"none", "done", "closed"}
    /\ gw.started < MaxSessions
    /\ \E request \in Requests, ok \in BOOLEAN :
         \E headers \in HeadersFor(request) :
            /\ gw' = [started |-> gw.started + 1,
                      session |-> AGISession(IF ok THEN "headers" ELSE "closed", request,
                                             headers, <<"">>, <<>>, <<>>)]
            /\ last' = NoOp
            /\ verifications' = <<>>
            /\ ended' = {}
            /\ UNCHANGED <<providers, providerRoutes, dids, activeCalls, didToCall,
                           providerStats, roundRobinIndex, now, mu, pc, hsel, sel, out, ret>>

\* the switch of processRequest and the handler's reading of the headers
processRequest ==
    /\ gw.session.pc = "headers"
    /\ LET s == gw.session
       IN IF s.request \notin EngineRequests
          THEN SessionStep([s EXCEPT !.pc = "write",
                                     !.todo = LinesToWrite(s.request, "", NoResponse)])
          ELSE IF VariablesRead(s.request) = <<>>
          THEN SessionStep([s EXCEPT !.pc = "engine"])
          ELSE SessionStep([s EXCEPT !.pc = "get"])

\* getVariable: the command is written
sendCommand ==
    /\ gw.session.pc = "get"
    /\ LET s == gw.session
       IN SessionStep([s EXCEPT !.pc = "reply",
                                !.lines = Append(s.lines, GetVariable(VariablesRead(s.request)[1]))])

\* getVariable: the reply is read and the value taken from it
readResponse ==
    /\ gw.session.pc = "reply"
    /\ LET s == gw.session
       IN \E ip \in SourceIPValues :
             SessionStep([s EXCEPT !.pc = "engine", !.sourceIP = ip,
                                   !.lines = Append(s.lines, Reply(ip))])

\* the handler calls the engine and keeps what it returned
callEngine ==
    /\ gw.session.pc = "engine"
    /\ LET s == gw.session
           h == s.headers
       IN /\ CASE s.request = "processIncoming" ->
                    ProcessIncomingCall(h.agi_uniqueid, h.agi_callerid, h.agi_extension,
                                        h.provider)
              [] s.request = "processReturn" ->
                    ProcessReturnCall(h.agi_callerid, h.agi_extension, h.provider, s.sourceIP)
              [] s.request = "processFinal" ->
                    ProcessFinalCall(h.agi_uniqueid, h.agi_callerid, h.agi_extension,
                                     h.provider, s.sourceIP)
          /\ gw' = [gw EXCEPT !.session =
                       [s EXCEPT !.pc = "write",
                                 !.todo = LinesToWrite(s.request, last'.err, last'.resp),
                                 !.lines = Append(s.lines, Engine(s.request))]]
    /\ UNCHANGED <<mu, pc, hsel, sel, out, ret>>

\* setVariable or sendResponse: the next line is written
writeLine ==
    /\ gw.session.pc = "write"
    /\ LET s == gw.session
       IN SessionStep([s EXCEPT !.pc = IF Len(s.todo) = 1 THEN "done" ELSE "write",
                                !.todo = Tail(s.todo),
                                !.lines = Append(s.lines, Head(s.todo))])

NextSession ==
    \/ readHeaders
    \/ processRequest
    \/ sendCommand
    \/ readResponse
    \/ callEngine
    \/ writeLine

SpecSession == InitSession /\ [][NextSession]_vars

\* the places of the lines of one kind in what the session did
Places(lines, kind) == {i \in 1..Len(lines) : lines[i][1] = kind}

\* C32: within a session the commands are in order: on leg 3 and leg 5 the
\* GET VARIABLE SOURCE_IP exchange is over before the engine is called, every
\* SET VARIABLE is written after the engine has returned, and a session whose
\* headers were read ends on exactly one status line written after every
\* variable command, whatever the request, a missing or unknown one included.
SessionInOrder ==
    LET s == gw.session
        lines == s.lines
        engine == Places(lines, "engine")
        status == Places(lines, "status")
        commands == Places(lines, "GET VARIABLE") \cup Places(lines, "reply")
                      \cup Places(lines, "SET VARIABLE")
    IN /\ Cardinality(engine) <= 1 /\ Cardinality(status) <= 1
       /\ (engine # {} /\ s.request \in {"processReturn", "processFinal"}) =>
             \E g \in Places(lines, "GET VARIABLE"), r \in Places(lines, "reply") :
                 /\ lines[g] = GetVariable("SOURCE_IP")
                 /\ g < r /\ \A e \in engine : r < e
       /\ \A i \in Places(lines, "SET VARIABLE") : \E e \in engine : e < i
       /\ \A i \in status : \A j \in commands \cup engine : j < i
       /\ s.pc = "done" => Cardinality(status) = 1
       /\ s.pc \in {"headers", "get", "reply", "engine", "write"} => status = {}
       /\ (s.pc = "done" /\ s.request \in EngineRequests) => engine # {}

\* a leg 3 session is over: it asked for SOURCE_IP, called the engine, set
\* the four routing variables and ended on its status line
ReturnSessionDone ==
    /\ gw.session.pc = "done" /\ gw.session.request = "processReturn"
    /\ Len(gw.session.lines) = 8
    /\ gw.session.lines[8] = Status(AGI_SUCCESS)

-----------------------------------------------------------------------------
(* SpecServer: the gateway's accept loop, Stop and the sessions as          *)
(* goroutines.  gw holds Server's fields (shutdown, listener, the           *)
(* connections WaitGroup's counter), where Start and Stop are, and the      *)
(* sessions started so far.  Start and Stop run one statement at a time;    *)
(* a session is its start and its deferred connections.Done().              *)

MaxConns == 3

Server(shutdown, listener, connections, start, stop, sessions) ==
    [shutdown |-> shutdown, listener |-> listener, connections |-> connections,
     start |-> start, stop |-> stop, sessions |-> sessions]

InitServer ==
    /\ providers = SeedProviders
    /\ providerRoutes = EmptyMap
    /\ dids = EmptyMap
    /\ activeCalls = EmptyMap
    /\ didToCall = EmptyMap
    /\ providerStats = EmptyMap
    /\ roundRobinIndex = EmptyMap
    /\ verifications = <<>>
    /\ now = 0
    /\ last = NoOp
    /\ mu = 0
    /\ pc = EmptyMap
    /\ hsel = EmptyMap
    /\ ended = {}
    /\ sel = <<>>
    /\ out = NoSession
    /\ ret = NoRet
    /\ gw = Server(FALSE, "nil", 0, "listen", "idle", <<>>)

ServerStep(g) ==
    /\ gw' = g
    /\ UNCHANGED <<providers, providerRoutes, dids, activeCalls, didToCall, providerStats,
                   roundRobinIndex, verifications, now, last, mu, pc, hsel, ended, sel, out,
                   ret>>

\* a loop that goes back to Accept after a failed Accept
AfterFailedAcceptRetry == "accept"

\* where the loop goes after Accept timed out or failed: `continue`
AfterFailedAccept == "select"

\* net.Listen; ok is FALSE when the port cannot be bound and Start returns the error
Listen ==
    /\ gw.start = "listen"
    /\ \E ok \in BOOLEAN :
          ServerStep(IF ok THEN [gw EXCEPT !.listener = "open", !.start = "select"]
                           ELSE [gw EXCEPT !.start = "returned"])

\* the select: Start returns when shutdown is closed, else sets the deadline
\* and goes on to Accept
SelectShutdown ==
    /\ gw.start = "select"
    /\ ServerStep([gw EXCEPT !.start = IF gw.shutdown THEN "returned" ELSE "accept"])

\* Accept returns within the deadline: with a connection, which it can only
\* while the listener is open, with a timeout or with another error, as it
\* does once the listener is closed
Accept ==
    /\ gw.start = "accept"
    /\ \/ /\ gw.listener = "open"
          /\ Len(gw.sessions) < MaxConns
          /\ ServerStep([gw EXCEPT !.start = "accepted"])
       \/ ServerStep([gw EXCEPT !.start = AfterFailedAccept])

\* s.connections.Add(1); go s.handleConnection(conn)
StartSession ==
    /\ gw.start = "accepted"
    /\ ServerStep([gw EXCEPT !.connections = gw.connections + 1,
                             !.sessions = Append(gw.sessions, "running"),
                             !.start = "select"])

\* handleConnection returns and its deferred connections.Done() runs
FinishSession ==
    \E i \in 1..Len(gw.sessions) :
        /\ gw.sessions[i] = "running"
        /\ ServerStep([gw EXCEPT !.connections = gw.connections - 1,
                                 !.sessions[i] = "finished"])

\* Stop: close(s.shutdown)
StopCloseShutdown ==
    /\ gw.stop = "idle"
    /\ ServerStep([gw EXCEPT !.shutdown = TRUE, !.stop = "close"])

\* Stop: s.listener.Close() when there is a listener
StopCloseListener ==
    /\ gw.stop = "close"
    /\ ServerStep([gw EXCEPT !.listener = IF gw.listener = "nil" THEN "nil" ELSE "closed",
                             !.stop = "wait"])

\* Stop: s.connections.Wait() returns when the counter is zero
StopWait ==
    /\ gw.stop = "wait"
    /\ gw.connections = 0
    /\ ServerStep([gw EXCEPT !.stop = "returned"])

NextServer ==
    \/ Listen
    \/ SelectShutdown
    \/ Accept
    \/ StartSession
    \/ FinishSession
    \/ StopCloseShutdown
    \/ StopCloseListener
    \/ StopWait

SpecServer == InitServer /\ [][NextServer]_vars

\* the goroutine that runs Start is scheduled again and again
SpecServerLive ==
    /\ SpecServer
    /\ WF_vars(Listen) /\ WF_vars(SelectShutdown) /\ WF_vars(Accept) /\ WF_vars(StartSession)

StopCalled == gw.stop # "idle"

StartReturned == gw.start = "returned"

\* C33: once Stop has been called the accept loop comes to its shutdown
\* check, after a timeout, an error or a connection, and Start returns.
StartReturnsAfterStop == StopCalled ~> StartReturned

\* Stop closed the listener under the loop and both have returned
StoppedWhileListening ==
    /\ gw.start = "returned" /\ gw.stop = "returned"
    /\ gw.listener = "closed" /\ gw.shutdown

\* C40: when Stop has returned every session that was started has finished,
\* a session started after it returned included, also when an Accept
\* returns a connection while Stop runs.
StopWaitsForEverySession ==
    gw.stop = "returned" => \A i \in 1..Len(gw.sessions) : gw.sessions[i] = "finished"

-----------------------------------------------------------------------------
(* SpecCounter: IncrementActiveCalls alone, called with any small delta for *)
(* peers that have an entry in providerStats and peers that have none.      *)

MaxDelta == 2

MaxCount == 3

CounterNames == {"s3a", "s3b", "s4"}

InitCounter ==
    /\ providers = SeedProviders
    /\ providerRoutes = EmptyMap
    /\ providerStats = EmptyMap
    /\ dids = EmptyMap
    /\ activeCalls = EmptyMap
    /\ didToCall = EmptyMap
    /\ roundRobinIndex = EmptyMap
    /\ verifications = <<>>
    /\ now = 0
    /\ last = NoOp
    /\ mu = 0
    /\ pc = EmptyMap
    /\ hsel = EmptyMap
    /\ ended = {}
    /\ sel = <<>>
    /\ out = NoSession
    /\ ret = NoRet
    /\ gw = NoGateway

\* one call of IncrementActiveCalls; last keeps its arguments
IncrementActive(name, delta) ==
    /\ GetProviderStats(providerStats, name).ActiveCalls + delta <= MaxCount
    /\ providerStats' = IncrementActiveCalls(providerStats, name, delta)
    /\ last' = Op("increment", "", [name |-> name, delta |-> delta,
                                    existed |-> name \in DOMAIN providerStats])
    /\ UNCHANGED <<providers, providerRoutes, dids, activeCalls, didToCall, roundRobinIndex,
                   verifications, now, mu, pc, hsel, ended, sel, out, ret, gw>>

NextCounter == \E name \in CounterNames, delta \in -MaxDelta..MaxDelta : IncrementActive(name, delta)

SpecCounter == InitCounter /\ [][NextCounter]_vars

\* C34: IncrementActiveCalls adds delta to the peer's counter and sets a
\* negative result to zero, so no counter is ever negative; for a peer
\* without an entry it makes a healthy one with the other counters at zero,
\* and it leaves the other peers' entries alone.
IncrementAddsAndFloors ==
    [][/\ \A n \in DOMAIN providerStats' : providerStats'[n].ActiveCalls >= 0
       /\ last'.op = "increment" =>
             LET name == last'.resp.name
                 before == IF name \in DOMAIN providerStats
                           THEN providerStats[name].ActiveCalls ELSE 0
                 sum == before + last'.resp.delta
                 after == providerStats'[name]
             IN /\ DOMAIN providerStats' = DOMAIN providerStats \cup {name}
                /\ after.ActiveCalls = IF sum < 0 THEN 0 ELSE sum
                /\ \A n \in DOMAIN providerStats \ {name} : providerStats'[n] = providerStats[n]
                /\ IF name \in DOMAIN providerStats
                   THEN after = [providerStats[name] EXCEPT !.ActiveCalls = after.ActiveCalls]
                   ELSE /\ after.IsHealthy
                        /\ after.TotalCalls = 0 /\ after.FailedCalls = 0
                        /\ after.LastCallTime = ZeroTime]_vars

\* a negative delta made an entry for a peer that had none, at zero
EntryMadeAtFloor ==
    /\ last.op = "increment"
    /\ ~last.resp.existed /\ last.resp.delta < 0
    /\ providerStats[last.resp.name].ActiveCalls = 0
    /\ providerStats[last.resp.name].IsHealthy

-----------------------------------------------------------------------------
(* Properties of the active-call counters and of a call's end *)

\* the live records that name a peer as intermediate, and as final
CallsThrough(name) == {c \in DOMAIN activeCalls : activeCalls[c].IntermediateProvider = name}

CallsInto(name) == {c \in DOMAIN activeCalls : activeCalls[c].FinalProvider = name}

\* C35: for every peer the active-call counter is the number of live
\* records that name it as intermediate plus the number that name it as
\* final, whatever calls of the three legs, sweeps and monitor runs came.
CountersMatchLedger ==
    \A n \in DOMAIN providers :
        GetProviderStats(providerStats, n).ActiveCalls
            = Cardinality(CallsThrough(n)) + Cardinality(CallsInto(n))

\* a route that AddProviderRoute accepts, as all three peers exist, and that
\* names one peer with a channel limit as intermediate and as final
SamePeerRoute == [SeedRoute("weighted") EXCEPT !.IntermediateProvider = "s3b", !.FinalProvider = "s3b"]

InitSamePeer ==
    /\ providers = SeedProviders
    /\ providerRoutes = Put(EmptyMap, "r", SamePeerRoute)
    /\ dids = SeedDIDs
    /\ activeCalls = EmptyMap
    /\ didToCall = EmptyMap
    /\ providerStats = EmptyMap
    /\ roundRobinIndex = EmptyMap
    /\ verifications = <<>>
    /\ now = 0
    /\ last = NoOp
    /\ mu = 0
    /\ pc = EmptyMap
    /\ hsel = EmptyMap
    /\ ended = {}
    /\ sel = <<>>
    /\ out = NoSession
    /\ ret = NoRet
    /\ gw = NoGateway

NextSamePeer ==
    \/ Incoming
    \/ Final
    \/ Cleanup
    \/ Tick

SpecSamePeer == InitSamePeer /\ [][NextSamePeer]_vars

\* C36: a peer with a channel limit above zero never has more active calls
\* counted than its limit, also when one leg 1 takes it as intermediate and
\* as final.
CountersWithinChannels ==
    \A n \in DOMAIN providers :
        providers[n].MaxChannels > 0
            => GetProviderStats(providerStats, n).ActiveCalls <= providers[n].MaxChannels

\* C37: leg 5 completes a record only when leg 3 was accepted for it, that
\* is when its status is RETURNED_FROM_S3; and a live record's status never
\* goes back from RETURNED_FROM_S3 to ACTIVE while the legs 3 and 5 and the
\* sweep work on it.
CompletedOnlyAfterReturn ==
    [][/\ (last'.op = "final" /\ last'.err = "")
            => \A c \in DOMAIN activeCalls \ DOMAIN activeCalls' :
                   activeCalls[c].Status = "RETURNED_FROM_S3"
       /\ last'.op # "incoming"
            => \A c \in DOMAIN activeCalls \cap DOMAIN activeCalls' :
                   activeCalls[c].Status = "RETURNED_FROM_S3"
                       => activeCalls'[c].Status = "RETURNED_FROM_S3"]_vars

\* C38: a call is ended once.  The step that ends records, leg 5 or the
\* sweep, ends records that were live and takes them out of the ledger; and
\* a leg 5 that comes for a call-id right after its record was ended finds
\* no record: it fails with call-not-found and touches neither the pool nor
\* the counters.
TerminalBookkeepingOnce ==
    [][/\ \A r \in ended' :
             /\ r.CallID \in DOMAIN activeCalls
             /\ r.CallID \notin DOMAIN activeCalls'
             /\ r.AssignedDID \notin DOMAIN didToCall'
       /\ \A c \in {r.CallID : r \in ended} :
             (\E a \in ANIs, n \in LegNumbers, p \in ClaimedNames, ip \in SourceIPs :
                  handleFinalCall(c, a, n, p, ip))
                 => /\ last'.err = "call-not-found"
                    /\ dids' = dids
                    /\ providerStats' = providerStats]_vars

-----------------------------------------------------------------------------
(* SpecFallback: leg 5 with a call-id the ledger does not know, so that    *)
(* ProcessFinalCall scans activeCalls for the original ANI and DNIS.        *)

UnknownCallIDs == {"cx"}

FinalUnknown == \E c \in UnknownCallIDs, a \in ANIs, n \in LegNumbers, p \in ClaimedNames,
                   ip \in SourceIPs :
                    handleFinalCall(c, a, n, p, ip)

NextFallback ==
    \/ Incoming
    \/ Return
    \/ FinalUnknown
    \/ Tick

SpecFallback == Init /\ [][NextFallback]_vars

\* the records a leg 5 with these arguments can complete from this state
Completable(callID, ani, dnis, provider, sourceIP) ==
    {c \in DOMAIN activeCalls :
        ENABLED (/\ handleFinalCall(callID, ani, dnis, provider, sourceIP)
                 /\ last'.err = ""
                 /\ c \notin DOMAIN activeCalls')}

\* C39: a leg 5 whose call-id misses completes a record that the ledger
\* and the arguments fix: from one state and with one set of arguments
\* there is one record it can complete, and so one DID it can release.
FallbackDetermined ==
    \A c \in UnknownCallIDs, a \in ANIs, n \in LegNumbers, p \in ClaimedNames,
       ip \in SourceIPs :
        Cardinality(Completable(c, a, n, p, ip)) <= 1

====
